---- MODULE Spec2Model ----
(***************************************************************************)
(* The chat endpoint of the ecoATM assistant (src/index.js) with the       *)
(* device-estimate helpers it calls (src/device-estimate-service.js), and  *)
(* the Lex fulfilment's extractDeviceInfo (src/unnamed/part_001).          *)
(*                                                                         *)
(* A JavaScript string is written as a TLA+ string.  The regular           *)
(* expressions and string methods of the source work on characters, so     *)
(* Chars gives, for every string the model handles, its characters, and    *)
(* Str goes back from characters to the string.  A string built from       *)
(* several parts (a reply made from a template) is the tuple of its parts. *)
(***************************************************************************)
EXTENDS Integers, Sequences, FiniteSets, TLC

\* ------------------------------------------------------------------ strings
\* The short strings: messages, keywords, slot values, separators.
\* <WordPairs>
WordPairs ==
  {<<"", <<>>>>,
   <<"find a kiosk near 92101", <<"f","i","n","d"," ","a"," ","k","i","o","s","k"," ","n","e","a","r"," ","9","2","1","0","1">>>>,
   <<"find a kiosk", <<"f","i","n","d"," ","a"," ","k","i","o","s","k">>>>,
   <<"what's my Galaxy S21 worth", <<"w","h","a","t","'","s"," ","m","y"," ","G","a","l","a","x","y"," ","S","2","1"," ","w","o","r","t","h">>>>,
   <<"128GB on AT&T", <<"1","2","8","G","B"," ","o","n"," ","A","T","&","T">>>>,
   <<"price iphone 13", <<"p","r","i","c","e"," ","i","p","h","o","n","e"," ","1","3">>>>,
   <<"sell phone 64gb sprint", <<"s","e","l","l"," ","p","h","o","n","e"," ","6","4","g","b"," ","s","p","r","i","n","t">>>>,
   <<"yes", <<"y","e","s">>>>,
   <<"hello", <<"h","e","l","l","o">>>>,
   <<"what is an ecoATM kiosk", <<"w","h","a","t"," ","i","s"," ","a","n"," ","e","c","o","A","T","M"," ","k","i","o","s","k">>>>,
   <<"I have an iPhone 13 Pro with 256GB on Verizon", <<"I"," ","h","a","v","e"," ","a","n"," ","i","P","h","o","n","e"," ","1","3"," ","P","r","o"," ","w","i","t","h"," ","2","5","6","G","B"," ","o","n"," ","V","e","r","i","z","o","n">>>>,
   <<"location", <<"l","o","c","a","t","i","o","n">>>>,
   <<"kiosk", <<"k","i","o","s","k">>>>,
   <<"near", <<"n","e","a","r">>>>,
   <<"nearby", <<"n","e","a","r","b","y">>>>,
   <<"closest", <<"c","l","o","s","e","s","t">>>>,
   <<"nearest", <<"n","e","a","r","e","s","t">>>>,
   <<"find", <<"f","i","n","d">>>>,
   <<"where", <<"w","h","e","r","e">>>>,
   <<"atm", <<"a","t","m">>>>,
   <<"worth", <<"w","o","r","t","h">>>>,
   <<"value", <<"v","a","l","u","e">>>>,
   <<"price", <<"p","r","i","c","e">>>>,
   <<"estimate", <<"e","s","t","i","m","a","t","e">>>>,
   <<"offer", <<"o","f","f","e","r">>>>,
   <<"quote", <<"q","u","o","t","e">>>>,
   <<"much", <<"m","u","c","h">>>>,
   <<"pay", <<"p","a","y">>>>,
   <<"get", <<"g","e","t">>>>,
   <<"sell", <<"s","e","l","l">>>>,
   <<"phone", <<"p","h","o","n","e">>>>,
   <<"iphone", <<"i","p","h","o","n","e">>>>,
   <<"samsung", <<"s","a","m","s","u","n","g">>>>,
   <<"device", <<"d","e","v","i","c","e">>>>,
   <<"yeah", <<"y","e","a","h">>>>,
   <<"yep", <<"y","e","p">>>>,
   <<"sure", <<"s","u","r","e">>>>,
   <<"ok", <<"o","k">>>>,
   <<"okay", <<"o","k","a","y">>>>,
   <<"show", <<"s","h","o","w">>>>,
   <<"what", <<"w","h","a","t">>>>,
   <<"is", <<"i","s">>>>,
   <<"an", <<"a","n">>>>,
   <<"ecoatm", <<"e","c","o","a","t","m">>>>,
   <<"galaxy", <<"g","a","l","a","x","y">>>>,
   <<"pixel", <<"p","i","x","e","l">>>>,
   <<"pro", <<"p","r","o">>>>,
   <<"max", <<"m","a","x">>>>,
   <<"gb", <<"g","b">>>>,
   <<"tb", <<"t","b">>>>,
   <<"verizon", <<"v","e","r","i","z","o","n">>>>,
   <<"at&t", <<"a","t","&","t">>>>,
   <<"t-mobile", <<"t","-","m","o","b","i","l","e">>>>,
   <<"sprint", <<"s","p","r","i","n","t">>>>,
   <<"unlocked", <<"u","n","l","o","c","k","e","d">>>>,
   <<"Apple", <<"A","p","p","l","e">>>>,
   <<"Samsung", <<"S","a","m","s","u","n","g">>>>,
   <<"Google", <<"G","o","o","g","l","e">>>>,
   <<"Unknown", <<"U","n","k","n","o","w","n">>>>,
   <<"nearest ecoATM location", <<"n","e","a","r","e","s","t"," ","e","c","o","A","T","M"," ","l","o","c","a","t","i","o","n">>>>,
   <<"92101", <<"9","2","1","0","1">>>>,
   <<"13", <<"1","3">>>>,
   <<"Iphone 13", <<"I","p","h","o","n","e"," ","1","3">>>>,
   <<"Iphone 13 Pro", <<"I","p","h","o","n","e"," ","1","3"," ","P","r","o">>>>,
   <<"64GB", <<"6","4","G","B">>>>,
   <<"128GB", <<"1","2","8","G","B">>>>,
   <<"256GB", <<"2","5","6","G","B">>>>,
   <<"Sprint", <<"S","p","r","i","n","t">>>>,
   <<"At&t", <<"A","t","&","t">>>>,
   <<"Verizon", <<"V","e","r","i","z","o","n">>>>,
   <<" ", <<" ">>>>,
   <<", ", <<","," ">>>>,
   <<": ", <<":"," ">>>>,
   <<"- ", <<"-"," ">>>>,
   <<"\n", <<"\n">>>>,
   <<":\n", <<":","\n">>>>,
   <<" (", <<" ","(">>>>,
   <<")", <<")">>>>,
   <<" and ", <<" ","a","n","d"," ">>>>,
   <<"-", <<"-">>>>,
   <<") is estimated to be worth ", <<")"," ","i","s"," ","e","s","t","i","m","a","t","e","d"," ","t","o"," ","b","e"," ","w","o","r","t","h"," ">>>>,
   <<", I need to know the ", <<","," ","I"," ","n","e","e","d"," ","t","o"," ","k","n","o","w"," ","t","h","e"," ">>>>,
   <<"undefined", <<"u","n","d","e","f","i","n","e","d">>>>,
   <<"Mall Kiosk", <<"M","a","l","l"," ","K","i","o","s","k">>>>,
   <<"Grocery Kiosk", <<"G","r","o","c","e","r","y"," ","K","i","o","s","k">>>>,
   <<"Plaza Kiosk", <<"P","l","a","z","a"," ","K","i","o","s","k">>>>,
   <<"Depot Kiosk", <<"D","e","p","o","t"," ","K","i","o","s","k">>>>,
   <<"1 Main St", <<"1"," ","M","a","i","n"," ","S","t">>>>,
   <<"San Diego", <<"S","a","n"," ","D","i","e","g","o">>>>,
   <<"CA", <<"C","A">>>>,
   <<"45", <<"4","5">>>>,
   <<"10001-1234", <<"1","0","0","0","1","-","1","2","3","4">>>>,
   <<"is my phone worth more in 10001-1234 or 92101", <<"i","s"," ","m","y"," ","p","h","o","n","e"," ","w","o","r","t","h"," ","m","o","r","e"," ","i","n"," ","1","0","0","0","1","-","1","2","3","4"," ","o","r"," ","9","2","1","0","1">>>>,
   <<"sell my phone", <<"s","e","l","l"," ","m","y"," ","p","h","o","n","e">>>>,
   <<"it has 256GB", <<"i","t"," ","h","a","s"," ","2","5","6","G","B">>>>,
   <<"my phone is unlocked", <<"m","y"," ","p","h","o","n","e"," ","i","s"," ","u","n","l","o","c","k","e","d">>>>,
   <<"Unlocked", <<"U","n","l","o","c","k","e","d">>>>,
   <<"pixel 6 128gb", <<"p","i","x","e","l"," ","6"," ","1","2","8","g","b">>>>,
   <<"Pixel 6", <<"P","i","x","e","l"," ","6">>>>,
   <<"iphone 13 on sprint", <<"i","p","h","o","n","e"," ","1","3"," ","o","n"," ","s","p","r","i","n","t">>>>,
   <<"iphone 12 pro max 64gb", <<"i","p","h","o","n","e"," ","1","2"," ","p","r","o"," ","m","a","x"," ","6","4","g","b">>>>,
   <<"Iphone 12 pro max", <<"I","p","h","o","n","e"," ","1","2"," ","p","r","o"," ","m","a","x">>>>,
   <<"Iphone 13Pro", <<"I","p","h","o","n","e"," ","1","3","P","r","o">>>>,
   <<"Iphone 12promax", <<"I","p","h","o","n","e"," ","1","2","p","r","o","m","a","x">>>>,
   <<"12", <<"1","2">>>>,
   <<"storage", <<"s","t","o","r","a","g","e">>>>,
   <<"carrier", <<"c","a","r","r","i","e","r">>>>,
   <<"Galaxy 21", <<"G","a","l","a","x","y"," ","2","1">>>>,
   <<"hello!", <<"h","e","l","l","o","!">>>>}
\* </WordPairs>

\* The long strings: the replies and their templates' parts.
\* <ReplyPairs>
ReplyPairs ==
  {<<"Here are some ecoATM locations near ", <<"H","e","r","e"," ","a","r","e"," ","s","o","m","e"," ","e","c","o","A","T","M"," ","l","o","c","a","t","i","o","n","s"," ","n","e","a","r"," ">>>>,
   <<"I couldn't find any ecoATM locations near ", <<"I"," ","c","o","u","l","d","n","'","t"," ","f","i","n","d"," ","a","n","y"," ","e","c","o","A","T","M"," ","l","o","c","a","t","i","o","n","s"," ","n","e","a","r"," ">>>>,
   <<". Please try another zip code or visit our website at ecoatm.com to use the location finder.", <<"."," ","P","l","e","a","s","e"," ","t","r","y"," ","a","n","o","t","h","e","r"," ","z","i","p"," ","c","o","d","e"," ","o","r"," ","v","i","s","i","t"," ","o","u","r"," ","w","e","b","s","i","t","e"," ","a","t"," ","e","c","o","a","t","m",".","c","o","m"," ","t","o"," ","u","s","e"," ","t","h","e"," ","l","o","c","a","t","i","o","n"," ","f","i","n","d","e","r",".">>>>,
   <<"I'm having trouble finding locations right now. Please try again later or visit our website at ecoatm.com to use the location finder.", <<"I","'","m"," ","h","a","v","i","n","g"," ","t","r","o","u","b","l","e"," ","f","i","n","d","i","n","g"," ","l","o","c","a","t","i","o","n","s"," ","r","i","g","h","t"," ","n","o","w","."," ","P","l","e","a","s","e"," ","t","r","y"," ","a","g","a","i","n"," ","l","a","t","e","r"," ","o","r"," ","v","i","s","i","t"," ","o","u","r"," ","w","e","b","s","i","t","e"," ","a","t"," ","e","c","o","a","t","m",".","c","o","m"," ","t","o"," ","u","s","e"," ","t","h","e"," ","l","o","c","a","t","i","o","n"," ","f","i","n","d","e","r",".">>>>,
   <<"To find ecoATM locations near you, I'll need your zip code. Please enter your 5-digit zip code.", <<"T","o"," ","f","i","n","d"," ","e","c","o","A","T","M"," ","l","o","c","a","t","i","o","n","s"," ","n","e","a","r"," ","y","o","u",","," ","I","'","l","l"," ","n","e","e","d"," ","y","o","u","r"," ","z","i","p"," ","c","o","d","e","."," ","P","l","e","a","s","e"," ","e","n","t","e","r"," ","y","o","u","r"," ","5","-","d","i","g","i","t"," ","z","i","p"," ","c","o","d","e",".">>>>,
   <<"I'd be happy to help you find the nearest ecoATM kiosk! To locate the closest kiosk to you, I'll need your zip code. Please enter your 5-digit zip code.", <<"I","'","d"," ","b","e"," ","h","a","p","p","y"," ","t","o"," ","h","e","l","p"," ","y","o","u"," ","f","i","n","d"," ","t","h","e"," ","n","e","a","r","e","s","t"," ","e","c","o","A","T","M"," ","k","i","o","s","k","!"," ","T","o"," ","l","o","c","a","t","e"," ","t","h","e"," ","c","l","o","s","e","s","t"," ","k","i","o","s","k"," ","t","o"," ","y","o","u",","," ","I","'","l","l"," ","n","e","e","d"," ","y","o","u","r"," ","z","i","p"," ","c","o","d","e","."," ","P","l","e","a","s","e"," ","e","n","t","e","r"," ","y","o","u","r"," ","5","-","d","i","g","i","t"," ","z","i","p"," ","c","o","d","e",".">>>>,
   <<"Based on the information provided, your ", <<"B","a","s","e","d"," ","o","n"," ","t","h","e"," ","i","n","f","o","r","m","a","t","i","o","n"," ","p","r","o","v","i","d","e","d",","," ","y","o","u","r"," ">>>>,
   <<". This is an estimate for a device that powers on, has no screen damage, and no cracks. The actual offer may vary based on the condition of your device when assessed at an ecoATM kiosk.", <<"."," ","T","h","i","s"," ","i","s"," ","a","n"," ","e","s","t","i","m","a","t","e"," ","f","o","r"," ","a"," ","d","e","v","i","c","e"," ","t","h","a","t"," ","p","o","w","e","r","s"," ","o","n",","," ","h","a","s"," ","n","o"," ","s","c","r","e","e","n"," ","d","a","m","a","g","e",","," ","a","n","d"," ","n","o"," ","c","r","a","c","k","s","."," ","T","h","e"," ","a","c","t","u","a","l"," ","o","f","f","e","r"," ","m","a","y"," ","v","a","r","y"," ","b","a","s","e","d"," ","o","n"," ","t","h","e"," ","c","o","n","d","i","t","i","o","n"," ","o","f"," ","y","o","u","r"," ","d","e","v","i","c","e"," ","w","h","e","n"," ","a","s","s","e","s","s","e","d"," ","a","t"," ","a","n"," ","e","c","o","A","T","M"," ","k","i","o","s","k",".">>>>,
   <<"I'm sorry, I couldn't get an estimate for that device. Please check that the device information is correct or try a different device.", <<"I","'","m"," ","s","o","r","r","y",","," ","I"," ","c","o","u","l","d","n","'","t"," ","g","e","t"," ","a","n"," ","e","s","t","i","m","a","t","e"," ","f","o","r"," ","t","h","a","t"," ","d","e","v","i","c","e","."," ","P","l","e","a","s","e"," ","c","h","e","c","k"," ","t","h","a","t"," ","t","h","e"," ","d","e","v","i","c","e"," ","i","n","f","o","r","m","a","t","i","o","n"," ","i","s"," ","c","o","r","r","e","c","t"," ","o","r"," ","t","r","y"," ","a"," ","d","i","f","f","e","r","e","n","t"," ","d","e","v","i","c","e",".">>>>,
   <<"I'm still having trouble understanding which device you want to get an estimate for. Please provide the brand (like Apple, Samsung), model (like iPhone 13, Galaxy S21), storage size (like 128GB), and carrier (like Verizon, AT&T).", <<"I","'","m"," ","s","t","i","l","l"," ","h","a","v","i","n","g"," ","t","r","o","u","b","l","e"," ","u","n","d","e","r","s","t","a","n","d","i","n","g"," ","w","h","i","c","h"," ","d","e","v","i","c","e"," ","y","o","u"," ","w","a","n","t"," ","t","o"," ","g","e","t"," ","a","n"," ","e","s","t","i","m","a","t","e"," ","f","o","r","."," ","P","l","e","a","s","e"," ","p","r","o","v","i","d","e"," ","t","h","e"," ","b","r","a","n","d"," ","(","l","i","k","e"," ","A","p","p","l","e",","," ","S","a","m","s","u","n","g",")",","," ","m","o","d","e","l"," ","(","l","i","k","e"," ","i","P","h","o","n","e"," ","1","3",","," ","G","a","l","a","x","y"," ","S","2","1",")",","," ","s","t","o","r","a","g","e"," ","s","i","z","e"," ","(","l","i","k","e"," ","1","2","8","G","B",")",","," ","a","n","d"," ","c","a","r","r","i","e","r"," ","(","l","i","k","e"," ","V","e","r","i","z","o","n",","," ","A","T","&","T",")",".">>>>,
   <<"I'd be happy to give you an estimate for your device! To provide an accurate estimate, I need to know the brand (like Apple, Samsung), model (like iPhone 13, Galaxy S21), storage size (like 128GB), and carrier (like Verizon, AT&T). Could you please provide these details?", <<"I","'","d"," ","b","e"," ","h","a","p","p","y"," ","t","o"," ","g","i","v","e"," ","y","o","u"," ","a","n"," ","e","s","t","i","m","a","t","e"," ","f","o","r"," ","y","o","u","r"," ","d","e","v","i","c","e","!"," ","T","o"," ","p","r","o","v","i","d","e"," ","a","n"," ","a","c","c","u","r","a","t","e"," ","e","s","t","i","m","a","t","e",","," ","I"," ","n","e","e","d"," ","t","o"," ","k","n","o","w"," ","t","h","e"," ","b","r","a","n","d"," ","(","l","i","k","e"," ","A","p","p","l","e",","," ","S","a","m","s","u","n","g",")",","," ","m","o","d","e","l"," ","(","l","i","k","e"," ","i","P","h","o","n","e"," ","1","3",","," ","G","a","l","a","x","y"," ","S","2","1",")",","," ","s","t","o","r","a","g","e"," ","s","i","z","e"," ","(","l","i","k","e"," ","1","2","8","G","B",")",","," ","a","n","d"," ","c","a","r","r","i","e","r"," ","(","l","i","k","e"," ","V","e","r","i","z","o","n",","," ","A","T","&","T",")","."," ","C","o","u","l","d"," ","y","o","u"," ","p","l","e","a","s","e"," ","p","r","o","v","i","d","e"," ","t","h","e","s","e"," ","d","e","t","a","i","l","s","?">>>>,
   <<"I'm sorry, I encountered an error while trying to get an estimate for your device. Please try again later.", <<"I","'","m"," ","s","o","r","r","y",","," ","I"," ","e","n","c","o","u","n","t","e","r","e","d"," ","a","n"," ","e","r","r","o","r"," ","w","h","i","l","e"," ","t","r","y","i","n","g"," ","t","o"," ","g","e","t"," ","a","n"," ","e","s","t","i","m","a","t","e"," ","f","o","r"," ","y","o","u","r"," ","d","e","v","i","c","e","."," ","P","l","e","a","s","e"," ","t","r","y"," ","a","g","a","i","n"," ","l","a","t","e","r",".">>>>,
   <<"storage capacity (e.g., 128GB, 256GB)", <<"s","t","o","r","a","g","e"," ","c","a","p","a","c","i","t","y"," ","(","e",".","g",".",","," ","1","2","8","G","B",","," ","2","5","6","G","B",")">>>>,
   <<"carrier (e.g., Verizon, AT&T, T-Mobile, or Unlocked)", <<"c","a","r","r","i","e","r"," ","(","e",".","g",".",","," ","V","e","r","i","z","o","n",","," ","A","T","&","T",","," ","T","-","M","o","b","i","l","e",","," ","o","r"," ","U","n","l","o","c","k","e","d",")">>>>,
   <<"To provide an accurate estimate for your ", <<"T","o"," ","p","r","o","v","i","d","e"," ","a","n"," ","a","c","c","u","r","a","t","e"," ","e","s","t","i","m","a","t","e"," ","f","o","r"," ","y","o","u","r"," ">>>>,
   <<". Could you please provide this information?", <<"."," ","C","o","u","l","d"," ","y","o","u"," ","p","l","e","a","s","e"," ","p","r","o","v","i","d","e"," ","t","h","i","s"," ","i","n","f","o","r","m","a","t","i","o","n","?">>>>,
   <<"ecoATM buys used phones for cash.", <<"e","c","o","A","T","M"," ","b","u","y","s"," ","u","s","e","d"," ","p","h","o","n","e","s"," ","f","o","r"," ","c","a","s","h",".">>>>,
   <<"Would you like me to find the nearest ecoATM location?", <<"W","o","u","l","d"," ","y","o","u"," ","l","i","k","e"," ","m","e"," ","t","o"," ","f","i","n","d"," ","t","h","e"," ","n","e","a","r","e","s","t"," ","e","c","o","A","T","M"," ","l","o","c","a","t","i","o","n","?">>>>}
\* </ReplyPairs>

\* The characters of the short string s, and the short string of characters cs.
Chars(s) == (CHOOSE p \in WordPairs : p[1] = s)[2]
Str(cs) == (CHOOSE p \in WordPairs : p[2] = cs)[1]

\* The characters of a part of a reply, and of a tuple of parts, joined.
PartChars(s) == (CHOOSE p \in WordPairs \cup ReplyPairs : p[1] = s)[2]
RECURSIVE Join(_)
Join(parts) ==
  IF parts = <<>> THEN <<>> ELSE PartChars(Head(parts)) \o Join(Tail(parts))

\* v bound to a name inside F.
Let(v, F(_)) == F(v)

UpperCase ==
  <<"A","B","C","D","E","F","G","H","I","J","K","L","M",
    "N","O","P","Q","R","S","T","U","V","W","X","Y","Z">>
LowerCase ==
  <<"a","b","c","d","e","f","g","h","i","j","k","l","m",
    "n","o","p","q","r","s","t","u","v","w","x","y","z">>
Digits == {"0","1","2","3","4","5","6","7","8","9"}
Letters == {UpperCase[i] : i \in 1..26} \cup {LowerCase[i] : i \in 1..26}
WordChars == Letters \cup Digits \cup {"_"}

\* String.prototype.toLowerCase / toUpperCase on one character.
Lower(c) ==
  IF \E i \in 1..26 : UpperCase[i] = c
  THEN LowerCase[CHOOSE i \in 1..26 : UpperCase[i] = c] ELSE c
Upper(c) ==
  IF \E i \in 1..26 : LowerCase[i] = c
  THEN UpperCase[CHOOSE i \in 1..26 : LowerCase[i] = c] ELSE c
toLowerCase(cs) == [i \in 1..Len(cs) |-> Lower(cs[i])]
toUpperCase(cs) == [i \in 1..Len(cs) |-> Upper(cs[i])]

\* The regular-expression classes \d, \w and \s.
IsDigit(c) == c \in Digits
IsWordChar(c) == c \in WordChars
IsSpace(c) == c \in {" ", "\n", "\t", "\r"}

\* The character at position i of cs, "" outside it.
At(cs, i) == IF i \in 1..Len(cs) THEN cs[i] ELSE ""

\* \b between positions i-1 and i.
WordBoundary(cs, i) == IsWordChar(At(cs, i - 1)) # IsWordChar(At(cs, i))

\* The literal lit stands at position i of cs (flag i: letter case ignored).
LitAtI(cs, i, lit) ==
  /\ i >= 1
  /\ i + Len(lit) - 1 <= Len(cs)
  /\ \A j \in 1..Len(lit) : Lower(cs[i + j - 1]) = Lower(lit[j])

\* String.prototype.includes(lit): letter case counts.
includes(cs, lit) ==
  \E i \in 1..(Len(cs) - Len(lit) + 1) :
    \A j \in 1..Len(lit) : cs[i + j - 1] = lit[j]

\* The position after the longest run of digits (\d*) or blanks (\s*) from i.
RECURSIVE DigitsEnd(_, _)
DigitsEnd(cs, i) == IF IsDigit(At(cs, i)) THEN DigitsEnd(cs, i + 1) ELSE i
RECURSIVE SpacesEnd(_, _)
SpacesEnd(cs, i) == IF IsSpace(At(cs, i)) THEN SpacesEnd(cs, i + 1) ELSE i

\* String.prototype.trim.
RECURSIVE trim(_)
trim(cs) ==
  IF cs = <<>> THEN cs
  ELSE IF IsSpace(Head(cs)) THEN trim(Tail(cs))
  ELSE IF IsSpace(cs[Len(cs)]) THEN trim(SubSeq(cs, 1, Len(cs) - 1))
  ELSE cs

Min(S) == CHOOSE x \in S : \A y \in S : x <= y

\* JavaScript's null and undefined where a string is expected, the null in
\* place of an object, and what  if (v)  makes of a string.  A regular
\* expression's match is the tuple of its groups' characters (the whole match
\* first, <<>> for a group that took no part); no match is the empty tuple.
null == "<null>"
undefined == "<undefined>"
nullObject == [isNull |-> TRUE]
NoMatch == <<>>
Truthy(v) == v \notin {null, undefined, ""}

\* String.prototype.match / RegExp.prototype.test without the g flag: the
\* match at the leftmost position that has one.
Leftmost(cs, MatchAt(_, _)) ==
  LET hits == {i \in 1..Len(cs) + 1 : MatchAt(cs, i) # NoMatch}
  IN  IF hits = {} THEN NoMatch ELSE MatchAt(cs, Min(hits))

\* The words of a keyword list, as characters.
Words(keywords) == [k \in 1..Len(keywords) |-> Chars(keywords[k])]

\* The first alternative of words that stands at position i, 0 for none.
AltAt(cs, i, words) ==
  LET ks == {k \in 1..Len(words) : LitAtI(cs, i, words[k])}
  IN  IF ks = {} THEN 0 ELSE Min(ks)

\* ------------------------------------------------- src/index.js: the router
locationKeywords ==
  <<"location", "kiosk", "near", "nearby", "closest", "nearest", "find",
    "where", "atm">>
estimateKeywords ==
  <<"worth", "value", "price", "estimate", "offer", "quote", "much", "pay",
    "get", "sell">>
deviceKeywords == <<"phone", "iphone", "samsung", "device">>
affirmatives ==
  <<"yes", "yeah", "yep", "sure", "ok", "okay", "find", "show">>

\* /\b\d{5}(-\d{4})?\b/ at position i.  The optional group is tried first;
\* when the \b after it fails the expression falls back to the five digits.
ZipMatchAt(cs, i) ==
  IF WordBoundary(cs, i) /\ \A j \in 0..4 : IsDigit(At(cs, i + j))
  THEN IF /\ At(cs, i + 5) = "-"
          /\ \A j \in 6..9 : IsDigit(At(cs, i + j))
          /\ WordBoundary(cs, i + 10)
       THEN <<SubSeq(cs, i, i + 9), SubSeq(cs, i + 5, i + 9)>>
       ELSE IF WordBoundary(cs, i + 5)
       THEN <<SubSeq(cs, i, i + 4), <<>>>>
       ELSE NoMatch
  ELSE NoMatch

\* A variant: /^\d{5}(-\d{4})?$/, the expression of the locations endpoint
\* (line 235), which takes the code only when it is the whole message.
WholeMatch(cs, m) == IF m # NoMatch /\ Len(m[1]) = Len(cs) THEN m ELSE NoMatch
zipCodeMatchWholeMessage(message) ==
  WholeMatch(Chars(message), ZipMatchAt(Chars(message), 1))

\* message.match(/\b\d{5}(-\d{4})?\b/)
zipCodeMatch(message) == Leftmost(Chars(message), ZipMatchAt)

\* new RegExp(`\\b${keyword}\\b`, 'i').test(message) for some keyword.
KeywordAt(cs, i, kw) ==
  WordBoundary(cs, i) /\ LitAtI(cs, i, kw) /\ WordBoundary(cs, i + Len(kw))
HasKeyword(cs, words) ==
  \E k \in 1..Len(words) : \E i \in 1..Len(cs) : KeywordAt(cs, i, words[k])
isLocationQuery(message) == HasKeyword(Chars(message), Words(locationKeywords))

\* /^(yes|yeah|yep|sure|ok|okay|find|show)$/i.test(message.trim())
IsOneOf(cs, words) == \E k \in 1..Len(words) : cs = words[k]
isAffirmativeResponse(message) ==
  IsOneOf(toLowerCase(trim(Chars(message))), Words(affirmatives))

\* /what\s+is\s+(?:an\s+)?ecoatm/i at position i: word, blanks, word, ...
\* from position i; TRUE when every word is found in turn.
RECURSIVE WordsFrom(_, _, _)
WordsFrom(cs, i, words) ==
  IF words = <<>> THEN TRUE
  ELSE /\ LitAtI(cs, i, Head(words))
       /\ \/ Len(words) = 1
          \/ /\ SpacesEnd(cs, i + Len(Head(words))) > i + Len(Head(words))
             /\ WordsFrom(cs, SpacesEnd(cs, i + Len(Head(words))), Tail(words))
WhatIsAt(cs, i) ==
  \/ WordsFrom(cs, i, Words(<<"what", "is", "an", "ecoatm">>))
  \/ WordsFrom(cs, i, Words(<<"what", "is", "ecoatm">>))
HasWhatIs(cs) == \E i \in 1..Len(cs) : WhatIsAt(cs, i)
isWhatIsQuestion(message) == HasWhatIs(Chars(message))

\* estimateKeywords.some(k => message.toLowerCase().includes(k)) &&
\*   (message.toLowerCase().includes('phone') || ...)
IncludesAny(cs, words) == \E k \in 1..Len(words) : includes(cs, words[k])
IsEstimateText(lc) ==
  /\ IncludesAny(lc, Words(estimateKeywords))
  /\ IncludesAny(lc, Words(deviceKeywords))
isEstimateQuery(message) == IsEstimateText(toLowerCase(Chars(message)))

\* lastMessage.content.includes(...) throws a TypeError when lastMessage is
\* an assistant entry whose content is null.
LastContentThrows(messages) ==
  /\ Len(messages) > 1
  /\ messages[Len(messages) - 1].role = "assistant"
  /\ messages[Len(messages) - 1].content = <<null>>

\* lastMessage && lastMessage.role === 'assistant' &&
\*   lastMessage.content.includes('nearest ecoATM location'),
\* lastMessage being the entry before the user message just pushed.  Called
\* only when lastMessage.content is a string (see LastContentThrows).
previouslyAskedAboutLocation(messages) ==
  /\ Len(messages) > 1
  /\ messages[Len(messages) - 1].role = "assistant"
  /\ includes(Join(messages[Len(messages) - 1].content),
              PartChars("nearest ecoATM location"))

\* ------------------------------------------ src/device-estimate-service.js
brandKeywords == <<"iphone", "galaxy", "pixel">>
carrierKeywords == <<"verizon", "at&t", "t-mobile", "sprint", "unlocked">>
unitKeywords == <<"gb", "tb">>

\* brandMap[key] || 'Unknown'
brandMap(key) ==
  CASE key = <<"i","p","h","o","n","e">> -> "Apple"
    [] key = <<"g","a","l","a","x","y">> -> "Samsung"
    [] key = <<"p","i","x","e","l">> -> "Google"
    [] OTHER -> "Unknown"

\* An optional group (\s*word)? from position i: its characters, <<>> when
\* it takes no part.
OptGroup(cs, i, word) ==
  IF LitAtI(cs, SpacesEnd(cs, i), word)
  THEN SubSeq(cs, i, SpacesEnd(cs, i) + Len(word) - 1) ELSE <<>>

\* /(iphone|galaxy|pixel)\s*(\d+)(\s*pro)?(\s*max)?/i at position i.
ModelMatchAt(cs, i) ==
  Let(AltAt(cs, i, Words(brandKeywords)), LAMBDA k :
    IF k = 0 THEN NoMatch ELSE
    Let(i + Len(Words(brandKeywords)[k]), LAMBDA b :
    Let(SpacesEnd(cs, b), LAMBDA d :
    Let(DigitsEnd(cs, d), LAMBDA e :
      IF e = d THEN NoMatch ELSE
      Let(OptGroup(cs, e, <<"p","r","o">>), LAMBDA g3 :
      Let(OptGroup(cs, e + Len(g3), <<"m","a","x">>), LAMBDA g4 :
        <<SubSeq(cs, i, e + Len(g3) + Len(g4) - 1),
          SubSeq(cs, i, b - 1),
          SubSeq(cs, d, e - 1), g3, g4>>))))))

\* /(\d+)\s*(gb|tb)/i at position i.
StorageMatchAt(cs, i) ==
  Let(DigitsEnd(cs, i), LAMBDA e :
    IF e = i THEN NoMatch ELSE
    Let(SpacesEnd(cs, e), LAMBDA u :
      IF AltAt(cs, u, Words(unitKeywords)) = 0 THEN NoMatch
      ELSE <<SubSeq(cs, i, u + 1), SubSeq(cs, i, e - 1),
             SubSeq(cs, u, u + 1)>>))

\* /(verizon|at&t|t-mobile|sprint|unlocked)/i at position i.
CarrierMatchAt(cs, i) ==
  Let(AltAt(cs, i, Words(carrierKeywords)), LAMBDA k :
    IF k = 0 THEN NoMatch ELSE
    Let(SubSeq(cs, i, i + Len(Words(carrierKeywords)[k]) - 1), LAMBDA w :
      <<w, w>>))

\* message.match(modelRegex), .match(storageRegex), .match(carrierRegex)
modelMatch(cs) == Leftmost(cs, ModelMatchAt)
storageMatch(cs) == Leftmost(cs, StorageMatchAt)
carrierMatch(cs) == Leftmost(cs, CarrierMatchAt)

\* w.charAt(0).toUpperCase() + w.slice(1).toLowerCase()
Capitalize(w) ==
  IF w = <<>> THEN w ELSE <<Upper(Head(w))>> \o toLowerCase(Tail(w))

\* result.missingInfo / updated.missingInfo
missingInfoOf(storageOption, carrierName, modelName) ==
  [storage |-> ~Truthy(storageOption),
   carrier |-> ~Truthy(carrierName),
   model |-> ~Truthy(modelName)]

\* The device-info object of the four slots, missingInfo computed last.
deviceInfoOf(modelName, brandName, storageOption, carrierName) ==
  [modelName |-> modelName,
   seriesName |-> modelName,
   brandName |-> brandName,
   storageOption |-> storageOption,
   carrierName |-> carrierName,
   missingInfo |-> missingInfoOf(storageOption, carrierName, modelName)]

\* The slots read from the three matches: the model's name keeps group 3
\* and group 4 as matched, blanks included.
\* A variant: the qualifiers are added without the blanks before them.
modelNameOfTrimsQualifiers(mm) ==
  IF mm = NoMatch THEN undefined
  ELSE Str(Capitalize(mm[2]) \o <<" ">> \o mm[3] \o trim(mm[4])
           \o trim(mm[5]))
modelNameOf(mm) ==
  IF mm = NoMatch THEN undefined
  ELSE Str(Capitalize(mm[2]) \o <<" ">> \o mm[3] \o mm[4] \o mm[5])
brandNameOf(mm) ==
  IF mm = NoMatch THEN undefined ELSE brandMap(toLowerCase(mm[2]))
storageOptionOf(sm) ==
  IF sm = NoMatch THEN undefined ELSE Str(sm[2] \o toUpperCase(sm[3]))
carrierNameOf(cm) ==
  IF cm = NoMatch THEN undefined ELSE Str(Capitalize(cm[2]))

\* Object.keys(result).length > 0 ? result : null
extractedFrom(mm, sm, cm) ==
  IF mm = NoMatch /\ sm = NoMatch /\ cm = NoMatch
  THEN nullObject
  ELSE deviceInfoOf(modelNameOf(mm), brandNameOf(mm),
                    storageOptionOf(sm), carrierNameOf(cm))

extractDeviceInfoOf(cs) ==
  extractedFrom(modelMatch(cs), storageMatch(cs), carrierMatch(cs))
extractDeviceInfo(message) == extractDeviceInfoOf(Chars(message))

\* A variant: a recognised model is taken for a complete device.
isDeviceInfoCompleteModelOnly(deviceInfo) ==
  /\ deviceInfo # nullObject
  /\ Truthy(deviceInfo.modelName)
  /\ Truthy(deviceInfo.brandName)

isDeviceInfoComplete(deviceInfo) ==
  /\ deviceInfo # nullObject
  /\ Truthy(deviceInfo.modelName)
  /\ Truthy(deviceInfo.brandName)
  /\ Truthy(deviceInfo.storageOption)
  /\ Truthy(deviceInfo.carrierName)

\* `${v}` in a template literal.
Interpolate(v) == IF v = undefined THEN "undefined" ELSE v

\* A variant: the carrier is asked for before the storage.
missingFieldsOfCarrierFirst(deviceInfo) ==
  (IF ~Truthy(deviceInfo.carrierName)
   THEN <<"carrier (e.g., Verizon, AT&T, T-Mobile, or Unlocked)">>
   ELSE <<>>)
  \o (IF ~Truthy(deviceInfo.storageOption)
      THEN <<"storage capacity (e.g., 128GB, 256GB)">> ELSE <<>>)

\* missingFields, in the order the source pushes them.
missingFieldsOf(deviceInfo) ==
  (IF ~Truthy(deviceInfo.storageOption)
   THEN <<"storage capacity (e.g., 128GB, 256GB)">> ELSE <<>>)
  \o (IF ~Truthy(deviceInfo.carrierName)
      THEN <<"carrier (e.g., Verizon, AT&T, T-Mobile, or Unlocked)">>
      ELSE <<>>)

\* missingFields.join(' and ') for at most two fields.
joinAnd(fields) ==
  IF Len(fields) = 1 THEN fields ELSE <<fields[1], " and ", fields[2]>>

\* The reply is the tuple of the template's parts; <<null>> is null.
missingInfoMessageOf(deviceInfo, missingFields) ==
  IF Len(missingFields) = 0 THEN <<null>>
  ELSE <<"To provide an accurate estimate for your ",
         Interpolate(deviceInfo.brandName), " ",
         Interpolate(deviceInfo.modelName), ", I need to know the ">>
       \o joinAnd(missingFields)
       \o <<". Could you please provide this information?">>
getMissingInfoMessage(deviceInfo) ==
  missingInfoMessageOf(deviceInfo, missingFieldsOf(deviceInfo))

\* a || b on two slot values.
Or(a, b) == IF Truthy(a) THEN a ELSE b

\* A variant: the early return for a missing newInfo hands back newInfo.
updateDeviceInfoDropsExisting(existingInfo, newInfo) ==
  IF existingInfo = nullObject \/ newInfo = nullObject THEN newInfo
  ELSE [modelName |-> Or(newInfo.modelName, existingInfo.modelName),
        seriesName |-> Or(newInfo.seriesName, existingInfo.seriesName),
        brandName |-> Or(newInfo.brandName, existingInfo.brandName),
        storageOption |->
          Or(newInfo.storageOption, existingInfo.storageOption),
        carrierName |-> Or(newInfo.carrierName, existingInfo.carrierName),
        missingInfo |->
          missingInfoOf(Or(newInfo.storageOption, existingInfo.storageOption),
                        Or(newInfo.carrierName, existingInfo.carrierName),
                        Or(newInfo.modelName, existingInfo.modelName))]

\* A variant: the existing value of a slot wins over the new one.
updateDeviceInfoKeepsExisting(existingInfo, newInfo) ==
  IF existingInfo = nullObject THEN newInfo
  ELSE IF newInfo = nullObject THEN existingInfo
  ELSE [modelName |-> Or(existingInfo.modelName, newInfo.modelName),
        seriesName |-> Or(existingInfo.seriesName, newInfo.seriesName),
        brandName |-> Or(existingInfo.brandName, newInfo.brandName),
        storageOption |->
          Or(existingInfo.storageOption, newInfo.storageOption),
        carrierName |-> Or(existingInfo.carrierName, newInfo.carrierName),
        missingInfo |->
          missingInfoOf(Or(existingInfo.storageOption, newInfo.storageOption),
                        Or(existingInfo.carrierName, newInfo.carrierName),
                        Or(existingInfo.modelName, newInfo.modelName))]

\* A variant: the series is taken from existingInfo first.
updateDeviceInfoSeriesOfExisting(existingInfo, newInfo) ==
  IF existingInfo = nullObject THEN newInfo
  ELSE IF newInfo = nullObject THEN existingInfo
  ELSE [modelName |-> Or(newInfo.modelName, existingInfo.modelName),
        seriesName |-> Or(existingInfo.seriesName, newInfo.seriesName),
        brandName |-> Or(newInfo.brandName, existingInfo.brandName),
        storageOption |->
          Or(newInfo.storageOption, existingInfo.storageOption),
        carrierName |-> Or(newInfo.carrierName, existingInfo.carrierName),
        missingInfo |->
          missingInfoOf(Or(newInfo.storageOption, existingInfo.storageOption),
                        Or(newInfo.carrierName, existingInfo.carrierName),
                        Or(newInfo.modelName, existingInfo.modelName))]

updateDeviceInfo(existingInfo, newInfo) ==
  IF existingInfo = nullObject THEN newInfo
  ELSE IF newInfo = nullObject THEN existingInfo
  ELSE [modelName |-> Or(newInfo.modelName, existingInfo.modelName),
        seriesName |-> Or(newInfo.seriesName, existingInfo.seriesName),
        brandName |-> Or(newInfo.brandName, existingInfo.brandName),
        storageOption |->
          Or(newInfo.storageOption, existingInfo.storageOption),
        carrierName |-> Or(newInfo.carrierName, existingInfo.carrierName),
        missingInfo |->
          missingInfoOf(Or(newInfo.storageOption, existingInfo.storageOption),
                        Or(newInfo.carrierName, existingInfo.carrierName),
                        Or(newInfo.modelName, existingInfo.modelName))]

\* ------------------------------------------- src/index.js: POST /api/chat
\* Bound of the model: the requests begun in all.
MaxTurns == 2

\* The requests the server may be handling at once.
Requests == {1, 2}

\* What clients send: req.body.message and req.body.conversationId (a
\* string, null as the web client's first message has it, or left out).
Messages ==
  {"find a kiosk near 92101", "find a kiosk", "what's my Galaxy S21 worth",
   "128GB on AT&T", "price iphone 13",
   "is my phone worth more in 10001-1234 or 92101"}
ConversationIds == {"A", null, undefined}
SessionMessages ==
  {"find a kiosk", "price iphone 13", "sell phone 64gb sprint", "128GB on AT&T",
   "find a kiosk near 92101", "sell my phone"}
WhatIsMessages ==
  {"what is an ecoATM kiosk", "yes", "find a kiosk near 92101",
   "price iphone 13", "128GB on AT&T"}

\* What the gateways answer.
Location(name) ==
  [Name |-> name, Address |-> "1 Main St", City |-> "San Diego", State |-> "CA"]
LocationResults ==
  {<<>>,
   <<Location("Mall Kiosk"), Location("Grocery Kiosk"),
     Location("Plaza Kiosk"), Location("Depot Kiosk")>>}
Payouts == {[offer |-> "45"], [offer |-> undefined], nullObject}
Completions ==
  {"ecoATM buys used phones for cash.",
   "Would you like me to find the nearest ecoATM location?"}

\* What the handler computes from the message alone, worked out once for
\* each message; zipCode is zipCodeMatch[0] of line 62.
zipCodeOf(zipCodeMatched) ==
  IF zipCodeMatched = NoMatch THEN undefined ELSE Str(zipCodeMatched[1])
Parsed ==
  [m \in Messages \cup SessionMessages \cup WhatIsMessages |->
     [zipCodeMatch |-> zipCodeMatch(m),
      zipCode |-> zipCodeOf(zipCodeMatch(m)),
      isLocationQuery |-> isLocationQuery(m),
      isAffirmativeResponse |-> isAffirmativeResponse(m),
      isWhatIsQuestion |-> isWhatIsQuestion(m),
      isEstimateQuery |-> isEstimateQuery(m),
      extractDeviceInfo |-> extractDeviceInfo(m)]]

VARIABLES
  conversations,  \* the conversations object: property key -> session
  now,            \* what Date.now() last returned
  handler,        \* per request: where the async handler stands, its locals
  observed,       \* per request: the branch taken, the gateway calls made,
                  \* whether the gateway threw
  started,        \* per request: what the handler found when it began
  turns,          \* requests begun so far
  call,           \* a call of a function on its own: its arguments and
                  \* what it returned
  knowledge       \* the knowledge base: the documents and their embeddings

vars ==
  <<conversations, now, handler, observed, started, turns, call, knowledge>>

SystemPrompt ==
  "You are a helpful customer support assistant for ecoATM, a company that offers automated kiosks that buy back used cell phones and other electronic devices for cash. Be friendly, concise, and helpful. Base your answers on the information provided in the context. If you don't know something or if the information isn't in the provided context, say so politely."

\* The object a new conversation starts as.
NewSession ==
  [systemPrompt |-> SystemPrompt,
   messages |-> <<>>,
   awaitingZipCode |-> FALSE,
   awaitingDeviceInfo |-> FALSE,
   partialDeviceInfo |-> nullObject]

\* const { conversationId = Date.now().toString() } = req.body: the default
\* stands in for undefined only.
conversationIdOf(given, clock) ==
  IF given = undefined THEN ToString(clock) ELSE given

\* A variant: one session kept for every conversation.
PropertyKeyShared(conversationId) == "shared"

\* The property key conversations[conversationId] reads and writes.
PropertyKey(conversationId) ==
  IF conversationId = null THEN "null" ELSE conversationId

\* conversations[conversationId].messages.push({ role, content })
Push(session, role, content) ==
  [session EXCEPT !.messages = Append(@, [role |-> role, content |-> content])]

\* Where a handler stands after a step: suspended at a gateway call
\* (pc "location", "estimate", "completion"), or done with a response.
Suspend(session, pc, action, zipCode, deviceInfo) ==
  [session |-> session, pc |-> pc, action |-> action, zipCode |-> zipCode,
   deviceInfo |-> deviceInfo, status |-> 0, reply |-> <<>>]

\* Lines 214-222: the reply is pushed and sent with status 200.
Respond(session, action, reply) ==
  [session |-> Push(session, "assistant", reply), pc |-> "done",
   action |-> action, zipCode |-> undefined, deviceInfo |-> nullObject,
   status |-> 200, reply |-> reply]

\* Lines 223-226: the outer catch answers 500 { error }.
Fail(session, action) ==
  [session |-> session, pc |-> "done", action |-> action,
   zipCode |-> undefined, deviceInfo |-> nullObject,
   status |-> 500, reply |-> <<>>]

\* Lines 130-140: what was extracted, merged into what the session holds.
mergedDeviceInfo(stored, extracted) ==
  IF stored # nullObject /\ extracted # nullObject
  THEN updateDeviceInfo(stored, extracted)
  ELSE IF stored # nullObject THEN stored ELSE extracted

\* Lines 142-176 up to the pricing call, deviceInfo being the merged info.
estimateWith(session, deviceInfo) ==
  IF deviceInfo # nullObject
  THEN IF isDeviceInfoComplete(deviceInfo)
       THEN Suspend(session, "estimate", "RESOLVE_ESTIMATE", undefined,
                    deviceInfo)
       ELSE Respond([session EXCEPT !.partialDeviceInfo = deviceInfo,
                                    !.awaitingDeviceInfo = TRUE],
                    "ASK_FOR_SLOT", getMissingInfoMessage(deviceInfo))
  ELSE IF session.awaitingDeviceInfo
  THEN Respond(session, "ASK_FOR_SLOT",
         <<"I'm still having trouble understanding which device you want to get an estimate for. Please provide the brand (like Apple, Samsung), model (like iPhone 13, Galaxy S21), storage size (like 128GB), and carrier (like Verizon, AT&T).">>)
  ELSE Respond([session EXCEPT !.awaitingDeviceInfo = TRUE],
         "ASK_FOR_SLOT",
         <<"I'd be happy to give you an estimate for your device! To provide an accurate estimate, I need to know the brand (like Apple, Samsung), model (like iPhone 13, Galaxy S21), storage size (like 128GB), and carrier (like Verizon, AT&T). Could you please provide these details?">>)

\* Lines 128-182 up to the pricing call: the estimate branch.
estimateBranch(session, parsed) ==
  estimateWith(session,
    mergedDeviceInfo(session.partialDeviceInfo, parsed.extractDeviceInfo))

\* The location signal without the "what is ecoATM" test.
locationSignalNotSuppressed(session, parsed) ==
  \/ parsed.isLocationQuery
  \/ /\ parsed.isAffirmativeResponse
     /\ previouslyAskedAboutLocation(session.messages)

\* Line 113: the location signal.
locationSignal(session, parsed) ==
  /\ ~parsed.isWhatIsQuestion
  /\ \/ parsed.isLocationQuery
     \/ /\ parsed.isAffirmativeResponse
        /\ previouslyAskedAboutLocation(session.messages)

\* Lines 93-212: no zip code in the message and none awaited.
routeUnprompted(session, parsed) ==
  IF LastContentThrows(session.messages)
  THEN Fail(session, "THROWN")
  ELSE IF locationSignal(session, parsed)
  THEN Respond([session EXCEPT !.awaitingZipCode = TRUE], "ASK_FOR_ZIP",
         <<"I'd be happy to help you find the nearest ecoATM kiosk! To locate the closest kiosk to you, I'll need your zip code. Please enter your 5-digit zip code.">>)
  ELSE IF parsed.isEstimateQuery \/ session.awaitingDeviceInfo
  THEN estimateBranch(session, parsed)
  ELSE Suspend(session, "completion", "GENERAL", undefined, nullObject)

\* A variant: the zip code is asked for again once, then no longer awaited.
routeWaitGivesUp(session, parsed) ==
  IF parsed.zipCodeMatch # NoMatch
  THEN Suspend(session, "location", "RESOLVE_LOCATION", parsed.zipCode,
               nullObject)
  ELSE IF session.awaitingZipCode
  THEN Respond([session EXCEPT !.awaitingZipCode = FALSE],
         "CONTINUE_LOCATION_WAIT",
         <<"To find ecoATM locations near you, I'll need your zip code. Please enter your 5-digit zip code.">>)
  ELSE routeUnprompted(session, parsed)

\* A variant: an estimate query, or a session that awaits device info, is
\* served before awaitingZipCode is looked at.
routeDeviceInfoFirst(session, parsed) ==
  IF parsed.zipCodeMatch # NoMatch
  THEN Suspend(session, "location", "RESOLVE_LOCATION", parsed.zipCode,
               nullObject)
  ELSE IF parsed.isEstimateQuery \/ session.awaitingDeviceInfo
  THEN estimateBranch(session, parsed)
  ELSE IF session.awaitingZipCode
  THEN Respond(session, "CONTINUE_LOCATION_WAIT",
         <<"To find ecoATM locations near you, I'll need your zip code. Please enter your 5-digit zip code.">>)
  ELSE routeUnprompted(session, parsed)

\* Lines 56-212 up to the first await (or to the response when the turn
\* needs no gateway): first match wins.
route(session, parsed) ==
  IF parsed.zipCodeMatch # NoMatch
  THEN Suspend(session, "location", "RESOLVE_LOCATION", parsed.zipCode,
               nullObject)
  ELSE IF session.awaitingZipCode
  THEN Respond(session, "CONTINUE_LOCATION_WAIT",
         <<"To find ecoATM locations near you, I'll need your zip code. Please enter your 5-digit zip code.">>)
  ELSE routeUnprompted(session, parsed)

\* Lines 53-54, then the routing, on the session as it stands after line 51.
receive(session0, message) ==
  route(Push(session0, "user", <<message>>), Parsed[message])

\* locations.slice(0, 3).map(loc => `- ${...}`).join('\n'), as parts.
RECURSIVE locationsList(_, _)
locationsList(locations, n) ==
  IF n = 0 \/ locations = <<>> THEN <<>>
  ELSE <<"- ", Head(locations).Name, ": ", Head(locations).Address, ", ",
         Head(locations).City, ", ", Head(locations).State>>
       \o (IF n = 1 \/ Len(locations) = 1 THEN <<>> ELSE <<"\n">>)
       \o locationsList(Tail(locations), n - 1)

\* What a gateway call comes to: a value, or a throw.
Returned(value) == [threw |-> FALSE, value |-> value]
Threw == [threw |-> TRUE]

\* The reply of lines 66-89 to what findLocationsByZipCode came to.
locationReply(zipCode, outcome) ==
  IF outcome.threw
  THEN <<"I'm having trouble finding locations right now. Please try again later or visit our website at ecoatm.com to use the location finder.">>
  ELSE IF Len(outcome.value) > 0
  THEN <<"Here are some ecoATM locations near ", zipCode, ":\n">>
       \o locationsList(outcome.value, 3)
  ELSE <<"I couldn't find any ecoATM locations near ", zipCode,
         ". Please try another zip code or visit our website at ecoatm.com to use the location finder.">>

\* A variant: the catch branch without its reset of awaitingZipCode.
afterLocationCatchKeepsFlag(session, zipCode, outcome) ==
  Respond([session EXCEPT !.awaitingZipCode = @ /\ outcome.threw],
          "RESOLVE_LOCATION", locationReply(zipCode, outcome))

\* A variant: the location answer also ends the estimate flow.
afterLocationEndsEstimate(session, zipCode, outcome) ==
  Respond([session EXCEPT !.awaitingZipCode = FALSE,
                          !.awaitingDeviceInfo = FALSE,
                          !.partialDeviceInfo = nullObject],
          "RESOLVE_LOCATION", locationReply(zipCode, outcome))

\* Lines 64-89 after  await findLocationsByZipCode(zipCode), then 214-222:
\* each of the three branches resets awaitingZipCode.
afterLocation(session, zipCode, outcome) ==
  Respond([session EXCEPT !.awaitingZipCode = FALSE], "RESOLVE_LOCATION",
          locationReply(zipCode, outcome))

\* The reply of lines 148-158 and 177-182 to what getDeviceEstimate came to.
estimateReply(deviceInfo, outcome) ==
  IF outcome.threw
  THEN <<"I'm sorry, I encountered an error while trying to get an estimate for your device. Please try again later.">>
  ELSE IF outcome.value # nullObject /\ Truthy(outcome.value.offer)
  THEN <<"Based on the information provided, your ",
         deviceInfo.brandName, " ", deviceInfo.modelName, " (",
         deviceInfo.storageOption, ", ", deviceInfo.carrierName,
         ") is estimated to be worth ", outcome.value.offer,
         ". This is an estimate for a device that powers on, has no screen damage, and no cracks. The actual offer may vary based on the condition of your device when assessed at an ecoATM kiosk.">>
  ELSE <<"I'm sorry, I couldn't get an estimate for that device. Please check that the device information is correct or try a different device.">>

\* A variant: only an offer clears the pending state.
HasOffer(outcome) ==
  ~outcome.threw /\ outcome.value # nullObject /\ Truthy(outcome.value.offer)
afterEstimateOfferClears(session, deviceInfo, outcome) ==
  Respond(IF HasOffer(outcome)
          THEN [session EXCEPT !.partialDeviceInfo = nullObject,
                               !.awaitingDeviceInfo = FALSE]
          ELSE session,
          "RESOLVE_ESTIMATE", estimateReply(deviceInfo, outcome))

\* A variant: the flag is reset and the stored device info is left.
afterEstimateLeavesPartial(session, deviceInfo, outcome) ==
  Respond([session EXCEPT !.awaitingDeviceInfo = FALSE],
          "RESOLVE_ESTIMATE", estimateReply(deviceInfo, outcome))

\* Lines 146-158 and 177-182 after  await getDeviceEstimate(deviceInfo),
\* then 214-222: each of the three branches deletes partialDeviceInfo and
\* resets awaitingDeviceInfo.
afterEstimate(session, deviceInfo, outcome) ==
  Respond([session EXCEPT !.partialDeviceInfo = nullObject,
                          !.awaitingDeviceInfo = FALSE],
          "RESOLVE_ESTIMATE", estimateReply(deviceInfo, outcome))

\* A variant: a throw of the completion call is answered by calling again.
afterCompletionCallsAgain(session, outcome) ==
  IF outcome.threw
  THEN Suspend(session, "completion", "GENERAL", undefined, nullObject)
  ELSE Respond(session, "GENERAL", <<outcome.value>>)

\* Lines 202-209 after  await anthropic.messages.create(...): a throw is
\* caught by the outer catch alone.
afterCompletion(session, outcome) ==
  IF outcome.threw THEN Fail(session, "GENERAL")
  ELSE Respond(session, "GENERAL", <<outcome.value>>)

\* res.json({ reply, userMessage, conversationId }) or
\* res.status(500).json({ error }); nullObject while the handler runs.
responseOf(out, message, conversationId) ==
  IF out.status = 200
  THEN [status |-> 200, reply |-> out.reply, userMessage |-> message,
        conversationId |-> conversationId]
  ELSE IF out.status = 500
  THEN [status |-> 500, error |-> "Something went wrong"]
  ELSE nullObject

\* The gateway call a handler suspended at pc has made.
callOf(out) ==
  CASE out.pc = "location" ->
         <<[gateway |-> "findLocationsByZipCode", zipCode |-> out.zipCode]>>
    [] out.pc = "estimate" ->
         <<[gateway |-> "getDeviceEstimate", deviceInfo |-> out.deviceInfo]>>
    [] out.pc = "completion" ->
         <<[gateway |-> "anthropic.messages.create",
            messages |-> out.session.messages]>>
    [] OTHER -> <<>>

Suspended(r) == handler[r].pc \in {"location", "estimate", "completion"}

\* The server as it starts: no conversation yet, both handlers idle.
ServerStarts ==
  /\ conversations = <<>>
  /\ now = 0
  /\ handler = [r \in Requests |->
                  [pc |-> "idle", message |-> "", conversationId |-> undefined,
                   zipCode |-> undefined, deviceInfo |-> nullObject,
                   response |-> nullObject]]
  /\ observed = [r \in Requests |->
                   [action |-> "", calls |-> <<>>, threw |-> FALSE]]
  /\ started = [r \in Requests |->
                  [turn |-> 0, given |-> undefined, created |-> FALSE,
                   session |-> NewSession, overlapping |-> {}]]
  /\ turns = 0

\* const documents = []; const vectorStore = []; of the server, or the
\* empty documents table of the Lex fulfilment ("lambda").
EmptyStore(deployment) ==
  [deployment |-> deployment, documents |-> <<>>, vectorStore |-> <<>>]

Init ==
  /\ ServerStarts
  /\ call = nullObject
  /\ knowledge = EmptyStore("server")

\* A request arrives at time clock (read only when the request names no
\* conversation: the same millisecond as the last reading, or a later one)
\* and takes the first free handler: lines 39-54, then the
\* handler runs to its first await or to its response.
Free(r) == handler[r].pc \in {"idle", "done"}

\* Lines 39-54 and on to the first await: request r, found free, begins.
Begin(r, message, given, conversationId, key, created, session0, out) ==
  /\ conversations' = (key :> out.session) @@ conversations
  /\ handler' = [handler EXCEPT ![r] =
       [pc |-> out.pc, message |-> message,
        conversationId |-> conversationId, zipCode |-> out.zipCode,
        deviceInfo |-> out.deviceInfo,
        response |-> responseOf(out, message, conversationId)]]
  /\ observed' = [observed EXCEPT ![r] =
       [action |-> out.action, calls |-> callOf(out), threw |-> FALSE]]
  /\ started' = [started EXCEPT ![r] =
       [turn |-> turns + 1, given |-> given, created |-> created,
        session |-> session0,
        overlapping |->
          {q \in Requests \ {r} :
             /\ Suspended(q)
             /\ PropertyKey(handler[q].conversationId) = key}]]
  /\ turns' = turns + 1
  /\ UNCHANGED <<call, knowledge>>

\* A variant without the test: every message starts its session anew.
sessionAtStartsAnew(key) == NewSession

\* if (!conversations[conversationId]) { conversations[conversationId] = ... }
sessionAt(key) ==
  IF key \notin DOMAIN conversations THEN NewSession ELSE conversations[key]

Chat(r, message, given, clock) ==
  /\ Free(r)
  /\ \A q \in Requests : Free(q) => r <= q
  /\ given # undefined => clock = now
  /\ now' = clock
  /\ Begin(r, message, given, conversationIdOf(given, clock),
           PropertyKey(conversationIdOf(given, clock)),
           PropertyKey(conversationIdOf(given, clock)) \notin DOMAIN conversations,
           sessionAt(PropertyKey(conversationIdOf(given, clock))),
           receive(sessionAt(PropertyKey(conversationIdOf(given, clock))),
                   message))

\* A suspended handler resumes with what its gateway call came to, and runs
\* to its response; a gateway call made on the way would be recorded.
Resume(r, outcome, out) ==
  LET key == PropertyKey(handler[r].conversationId)
  IN  /\ conversations' = [conversations EXCEPT ![key] = out.session]
      /\ handler' = [handler EXCEPT ![r].pc = out.pc,
                                    ![r].response =
                                      responseOf(out, handler[r].message,
                                                 handler[r].conversationId)]
      /\ observed' = [observed EXCEPT ![r].action = out.action,
                                      ![r].calls = @ \o callOf(out),
                                      ![r].threw = outcome.threw]
      /\ UNCHANGED <<now, started, turns, call, knowledge>>

Current(r) == conversations[PropertyKey(handler[r].conversationId)]

LocationAnswers(r, outcome) ==
  /\ handler[r].pc = "location"
  /\ Resume(r, outcome, afterLocation(Current(r), handler[r].zipCode, outcome))

EstimateAnswers(r, outcome) ==
  /\ handler[r].pc = "estimate"
  /\ Resume(r, outcome, afterEstimate(Current(r), handler[r].deviceInfo, outcome))

CompletionAnswers(r, outcome) ==
  /\ handler[r].pc = "completion"
  /\ Resume(r, outcome, afterCompletion(Current(r), outcome))

Outcomes(values) == {Threw} \cup {Returned(v) : v \in values}

\* The steps of the server when clients send the given messages and
\* conversation ids, limit requests in all.
Step(messages, ids, limit) ==
  \/ \E r \in Requests, message \in messages, given \in ids,
        clock \in {now, now + 1} :
       turns < limit /\ Chat(r, message, given, clock)
  \/ \E r \in Requests, outcome \in Outcomes(LocationResults) :
       LocationAnswers(r, outcome)
  \/ \E r \in Requests, outcome \in Outcomes(Payouts) :
       EstimateAnswers(r, outcome)
  \/ \E r \in Requests, outcome \in Outcomes(Completions) :
       CompletionAnswers(r, outcome)

Next == Step(Messages, ConversationIds, MaxTurns)

Spec == Init /\ [][Next]_vars

\* One conversation, followed for one turn more.
NextOneSession == Step(SessionMessages, {"A"}, MaxTurns + 1)

SpecOneSession == Init /\ [][NextOneSession]_vars

\* One conversation in which every gateway call that a handler awaits
\* returns or throws in the end.
GatewayAnswers(r) ==
  \/ \E outcome \in Outcomes(LocationResults) : LocationAnswers(r, outcome)
  \/ \E outcome \in Outcomes(Payouts) : EstimateAnswers(r, outcome)
  \/ \E outcome \in Outcomes(Completions) : CompletionAnswers(r, outcome)
GatewaysAnswer == \A r \in Requests : WF_vars(GatewayAnswers(r))

SpecGatewaysAnswer == Init /\ [][NextOneSession]_vars /\ GatewaysAnswer

\* One conversation that is asked what ecoATM is.
NextWhatIs == Step(WhatIsMessages, {"A"}, MaxTurns + 1)

SpecWhatIs == Init /\ [][NextWhatIs]_vars

\* ----------------------------------- src/unnamed/part_001: the embeddings
\* Array(1536): the length of an embedding.
vectorLength == 1536

\* String.prototype.charCodeAt on a character of a word of a lower-cased
\* text: a letter, a digit or the underscore.
DigitChars == <<"0","1","2","3","4","5","6","7","8","9">>
charCodeAt(c) ==
  IF \E i \in 1..26 : LowerCase[i] = c
  THEN 96 + (CHOOSE i \in 1..26 : LowerCase[i] = c)
  ELSE IF c = "_" THEN 95
  ELSE 47 + (CHOOSE i \in 1..10 : DigitChars[i] = c)

\* text.split(/\W+/): the runs of word characters, with an empty string
\* before a leading and after a trailing run of other characters.
RECURSIVE NonWordEnd(_, _)
NonWordEnd(cs, i) ==
  IF i <= Len(cs) /\ ~IsWordChar(cs[i]) THEN NonWordEnd(cs, i + 1) ELSE i
RECURSIVE splitFrom(_, _, _)
splitFrom(cs, i, word) ==
  IF i > Len(cs) THEN <<word>>
  ELSE IF IsWordChar(cs[i]) THEN splitFrom(cs, i + 1, Append(word, cs[i]))
  ELSE <<word>> \o splitFrom(cs, NonWordEnd(cs, i), <<>>)
split(cs) == splitFrom(cs, 1, <<>>)

\* A JavaScript number that is an integer, as hi * 65536 + lo with lo in
\* 0..65535, so that no product leaves the machine's integers.
Two16 == 65536
Number(hi, lo) == [hi |-> hi + lo \div Two16, lo |-> lo % Two16]

\* hash << 5: ToInt32(hash), shifted left by five bits within 32 bits, read
\* as a signed 32-bit integer.
Signed16(u) == IF u >= 32768 THEN u - Two16 ELSE u
ShiftLeft5(hash) ==
  [hi |-> Signed16(((hash.hi % Two16) * 32 + (hash.lo * 32) \div Two16)
                     % Two16),
   lo |-> (hash.lo * 32) % Two16]

\* hash = ((hash << 5) - hash) + word.charCodeAt(i): the subtraction and the
\* addition are not cut to 32 bits.
hashStep(hash, code) ==
  Number(ShiftLeft5(hash).hi - hash.hi, ShiftLeft5(hash).lo - hash.lo + code)
RECURSIVE hashFrom(_, _, _)
hashFrom(word, i, hash) ==
  IF i > Len(word) THEN hash
  ELSE hashFrom(word, i + 1, hashStep(hash, charCodeAt(word[i])))
hashOf(word) == hashFrom(word, 1, Number(0, 0))

\* Math.abs(hash) % vector.length
Residue(hash) ==
  ((hash.hi % vectorLength) * (Two16 % vectorLength) + hash.lo) % vectorLength
idxOf(hash) ==
  IF hash.hi >= 0 THEN Residue(hash)
  ELSE (vectorLength - Residue(hash)) % vectorLength

\* vector[idx] += 1, the vector being kept as its slots that are not 0.
Increment(vector, idx) ==
  IF idx \in DOMAIN vector THEN [vector EXCEPT ![idx] = @ + 1]
  ELSE (idx :> 1) @@ vector

\* words.forEach(word => ...) from the k-th word on.
RECURSIVE countWords(_, _, _)
countWords(words, k, vector) ==
  IF k > Len(words) THEN vector
  ELSE countWords(words, k + 1, Increment(vector, idxOf(hashOf(words[k]))))

\* createSimpleEmbedding(text) before the division by the magnitude, which
\* is the same positive number for every slot.
createSimpleEmbedding(text) ==
  countWords(split(toLowerCase(Chars(text))), 1, <<>>)

\* ------------------------------------ src/website-knowledge.js: retrieval
\* createEmbedding(text) of the server, before the division by the
\* magnitude: tokens is what encode(text.toLowerCase()) of gpt-3-encoder
\* gives, a sequence of token ids.
RECURSIVE countTokens(_, _, _)
countTokens(tokens, i, vector) ==
  IF i > Len(tokens) THEN vector
  ELSE countTokens(tokens, i + 1, Increment(vector, tokens[i] % vectorLength))
createEmbedding(tokens) == countTokens(tokens, 1, <<>>)

\* vecA.reduce((sum, val, i) => sum + val * vecB[i], 0)
RECURSIVE dotOver(_, _, _)
dotOver(slots, vecA, vecB) ==
  IF slots = {} THEN 0
  ELSE LET i == CHOOSE i \in slots : TRUE
       IN  vecA[i] * vecB[i] + dotOver(slots \ {i}, vecA, vecB)
dotProduct(vecA, vecB) ==
  dotOver(DOMAIN vecA \cap DOMAIN vecB, vecA, vecB)

\* cosineSimilarity(vecA, vecB) = dotProduct / (magA * magB), kept as the
\* dot product and the squared magnitude of vecB (vecA is the query's in
\* every score of one search); NaN when a magnitude is 0.
cosineSimilarity(vecA, vecB) ==
  [nan |-> dotProduct(vecA, vecA) = 0 \/ dotProduct(vecB, vecB) = 0,
   dot |-> dotProduct(vecA, vecB),
   squared |-> dotProduct(vecB, vecB)]

\* b.score - a.score < 0 for the scores a and b of one search: a is the
\* greater.  With a NaN the difference is NaN, which sort reads as 0.
Greater(a, b) ==
  /\ ~a.nan
  /\ ~b.nan
  /\ a.dot * a.dot * b.squared > b.dot * b.dot * a.squared

\* Array.prototype.sort((a, b) => b.score - a.score): stable, an item goes
\* before the first item it is greater than.
RECURSIVE insertByScore(_, _)
insertByScore(sorted, item) ==
  IF sorted = <<>> THEN <<item>>
  ELSE IF Greater(item.score, Head(sorted).score) THEN <<item>> \o sorted
  ELSE <<Head(sorted)>> \o insertByScore(Tail(sorted), item)
RECURSIVE sortByScore(_, _, _)
sortByScore(items, i, sorted) ==
  IF i > Len(items) THEN sorted
  ELSE sortByScore(items, i + 1, insertByScore(sorted, items[i]))

\* A variant: the item at index topK is kept too.
sliceThroughTopK(items, topK) ==
  SubSeq(items, 1, Min({topK + 1, Len(items)}))

\* Array.prototype.slice(0, topK) for topK >= 0.
slice(items, topK) == SubSeq(items, 1, Min({topK, Len(items)}))

\* Lines 91-102: the documents of the topK greatest scores.
scored(store, queryEmbedding) ==
  [idx \in 1..Len(store.vectorStore) |->
     [score |-> cosineSimilarity(queryEmbedding, store.vectorStore[idx]),
      idx |-> idx]]
topIndices(store, queryEmbedding, topK) ==
  slice(sortByScore(scored(store, queryEmbedding), 1, <<>>), topK)
documentsAt(store, items) ==
  [k \in 1..Len(items) |-> store.documents[items[k].idx]]
searchRelevantDocuments(store, tokens, topK) ==
  documentsAt(store, topIndices(store, createEmbedding(tokens), topK))

\* ---------------------------------- the device-info functions on their own
\* src/unnamed/part_001, lines 87-100: the input is an object of Lex slots.
extractFromSlots(input) ==
  IF Truthy(input.deviceBrand) /\ Truthy(input.deviceModel)
  THEN [modelName |-> input.deviceModel,
        seriesName |-> input.deviceModel,
        storageOption |-> Or(input.storageSize, "128GB"),
        carrierName |-> Or(input.carrier, "Verizon"),
        brandName |-> input.deviceBrand]
  ELSE nullObject

\* src/unnamed/part_001, lines 103-136: the input is a message; without a
\* model match the result is null, and a missing storage or carrier match
\* is filled in.
extractFromMatches(mm, sm, cm) ==
  IF mm = NoMatch THEN nullObject
  ELSE [modelName |-> modelNameOf(mm),
        seriesName |-> modelNameOf(mm),
        storageOption |->
          IF sm # NoMatch THEN storageOptionOf(sm) ELSE "128GB",
        carrierName |->
          IF cm # NoMatch THEN carrierNameOf(cm) ELSE "Verizon",
        brandName |-> brandNameOf(mm)]

\* src/unnamed/part_001: extractDeviceInfo(input) of the Lex fulfilment.
extractDeviceInfoLex(input) ==
  IF input.typeof = "object"
  THEN extractFromSlots(input)
  ELSE extractFromMatches(modelMatch(Chars(input.message)),
                          storageMatch(Chars(input.message)),
                          carrierMatch(Chars(input.message)))

\* The messages the extraction is called with: with and without a model,
\* a storage size and a carrier.
ExtractMessages ==
  Messages \cup SessionMessages \cup
  {"I have an iPhone 13 Pro with 256GB on Verizon", "it has 256GB",
   "my phone is unlocked", "pixel 6 128gb", "iphone 13 on sprint",
   "iphone 12 pro max 64gb"}

TextInput(message) == [typeof |-> "string", message |-> message]

\* The Lex slots the fulfilment is called with: each one filled or not.
LexSlots ==
  {[typeof |-> "object", deviceBrand |-> b, deviceModel |-> m,
    storageSize |-> g, carrier |-> c] :
     b \in {undefined, "Apple"}, m \in {undefined, "iPhone 13"},
     g \in {undefined, "64GB"}, c \in {undefined, "Sprint"}}

\* missingInfo as the slots have it, and as they do not.
OutOfDate(flags) ==
  [storage |-> ~flags.storage, carrier |-> ~flags.carrier,
   model |-> ~flags.model]

\* The device-info objects a caller may hand to updateDeviceInfo: null, or
\* each slot present or not, with missingInfo up to date or out of date.
DeviceInfos(models, brands, storages, carriers) ==
  {nullObject} \cup
  {[modelName |-> m, seriesName |-> s, brandName |-> b,
    storageOption |-> g, carrierName |-> c,
    missingInfo |-> IF stale THEN OutOfDate(missingInfoOf(g, c, m))
                    ELSE missingInfoOf(g, c, m)] :
     m \in models, s \in models, b \in brands, g \in storages,
     c \in carriers, stale \in BOOLEAN}

ExistingInfos ==
  DeviceInfos({undefined, "Iphone 13"}, {undefined, "Apple"},
              {undefined, "64GB"}, {undefined, "Sprint"})
NewInfos ==
  DeviceInfos({undefined, "Galaxy 21"}, {undefined, "Samsung"},
              {undefined, "128GB"}, {undefined, "Verizon"})

\* A call about to be made.
Called(op, input, existingInfo, newInfo) ==
  [op |-> op, pc |-> "called", input |-> input,
   existingInfo |-> existingInfo, newInfo |-> newInfo,
   result |-> nullObject, again |-> nullObject]

ExtractCalls ==
  {Called("extractDeviceInfo", TextInput(m), nullObject, nullObject) :
     m \in ExtractMessages}
LexExtractCalls ==
  {Called("extractDeviceInfoLex", input, nullObject, nullObject) :
     input \in {TextInput(m) : m \in ExtractMessages} \cup LexSlots}
UpdateCalls ==
  {Called("updateDeviceInfo", nullObject, existingInfo, newInfo) :
     existingInfo \in ExistingInfos, newInfo \in NewInfos}
UpdateWithItselfCalls ==
  {Called("updateDeviceInfo", nullObject, existingInfo, existingInfo) :
     existingInfo \in ExistingInfos}

\* getMissingInfoMessage is called with a device info, never with null.
MissingInfoMessageCalls ==
  {Called("getMissingInfoMessage", deviceInfo, nullObject, nullObject) :
     deviceInfo \in (ExistingInfos \cup NewInfos) \ {nullObject}}

InitDeviceInfo ==
  /\ ServerStarts
  /\ call \in ExtractCalls \cup LexExtractCalls \cup UpdateCalls
                \cup UpdateWithItselfCalls \cup MissingInfoMessageCalls
  /\ knowledge = EmptyStore("server")

Returns(op, result) ==
  /\ call.op = op
  /\ call.pc = "called"
  /\ call' = [call EXCEPT !.pc = "returned", !.result = result]
  /\ UNCHANGED <<conversations, now, handler, observed, started, turns,
                 knowledge>>

\* extractDeviceInfo(message) of device-estimate-service.js returns.
ExtractReturns ==
  Returns("extractDeviceInfo", extractDeviceInfo(call.input.message))

\* extractDeviceInfo(input) of the Lex fulfilment returns.
LexExtractReturns ==
  Returns("extractDeviceInfoLex", extractDeviceInfoLex(call.input))

\* updateDeviceInfo(existingInfo, newInfo) returns.
UpdateReturns ==
  Returns("updateDeviceInfo",
          updateDeviceInfo(call.existingInfo, call.newInfo))

\* The caller merges newInfo once more into what the call returned.
UpdateRepeats ==
  /\ call.op = "updateDeviceInfo"
  /\ call.pc = "returned"
  /\ call' = [call EXCEPT !.pc = "repeated",
                          !.again = updateDeviceInfo(call.result,
                                                     call.newInfo)]
  /\ UNCHANGED <<conversations, now, handler, observed, started, turns,
                 knowledge>>

\* getMissingInfoMessage(deviceInfo) returns.
MissingInfoMessageReturns ==
  Returns("getMissingInfoMessage", getMissingInfoMessage(call.input))

NextDeviceInfo ==
  \/ MissingInfoMessageReturns
  \/ ExtractReturns
  \/ LexExtractReturns
  \/ UpdateReturns
  \/ UpdateRepeats

SpecDeviceInfo == InitDeviceInfo /\ [][NextDeviceInfo]_vars

\* The device-info functions called on their own, or one conversation that
\* the server follows.
InitSeries == Init \/ InitDeviceInfo
NextSeries ==
  \/ call = nullObject /\ NextOneSession
  \/ call # nullObject /\ NextDeviceInfo

SpecSeries == InitSeries /\ [][NextSeries]_vars

\* --------------------------------------- the knowledge base on its own
\* The chunks of the pages and the queries: for the server what encode
\* makes of them (token 1541 falls into the slot of token 5), for the Lex
\* fulfilment their text.
Chunks == {<<5>>, <<5, 7>>, <<1541>>}
Queries == {<<>>, <<5>>, <<7>>, <<9>>}
LexChunks == {"hello", "find a kiosk"}
LexQueries == {"hello!", "find a kiosk"}
TopKs == {1, 3}

\* createSimpleEmbedding of every text the model embeds, computed once.
SimpleEmbeddings ==
  [text \in LexChunks \cup LexQueries |-> createSimpleEmbedding(text)]

\* createEmbedding without its catch block: a throw of Bedrock leaves the
\* vector of zeros.
createEmbeddingLexNoFallback(text, outcome) ==
  IF outcome.threw THEN <<>> ELSE outcome.value

\* src/unnamed/part_001, lines 188-209: what Bedrock returned, or the
\* fallback when the call threw.
createEmbeddingLex(text, outcome) ==
  IF outcome.threw THEN SimpleEmbeddings[text] ELSE outcome.value

\* src/unnamed/part_001, lines 313-327: the items as the scan returned them,
\* scored, sorted and cut.
scoredItems(store, queryEmbedding, order) ==
  [k \in 1..Len(order) |->
     [score |-> cosineSimilarity(queryEmbedding,
                                 store.vectorStore[order[k]]),
      idx |-> order[k]]]
searchItems(store, queryEmbedding, order, topK) ==
  documentsAt(store,
    slice(sortByScore(scoredItems(store, queryEmbedding, order), 1, <<>>),
          topK))

\* src/unnamed/part_001, lines 297-332: scan is what the ScanCommand came
\* to, the stored items in some order or a throw; any throw gives [].
searchRelevantDocumentsLex(store, query, topK, embedding, scan) ==
  IF scan.threw THEN <<>>
  ELSE searchItems(store, createEmbeddingLex(query, embedding), scan.value,
                   topK)

\* Bound of the model: the chunks indexed in all.
MaxDocuments == 3

\* What Bedrock answers: an embedding, or a throw.
Embeddings == Outcomes({(1234 :> 1) @@ (441 :> 1)})

\* Orders in which a scan may return n items: as they were put, or the
\* last put first.
Orders(n) == {[k \in 1..n |-> k], [k \in 1..n |-> n + 1 - k]}

\* What the ScanCommand comes to on the store.
Scans(store) == Outcomes(Orders(Len(store.documents)))

\* The chunk as the next document of the store, with its embedding.
Stored(store, chunk, embedding) ==
  [store EXCEPT
     !.documents = Append(@, [source |-> Len(store.documents) + 1,
                              content |-> chunk]),
     !.vectorStore = Append(@, embedding)]

InitKnowledge ==
  /\ ServerStarts
  /\ call = nullObject
  /\ knowledge \in {EmptyStore("server"), EmptyStore("lambda")}

\* src/website-knowledge.js, lines 62-75: scrapeAndIndex stores a chunk.
Index(chunk) ==
  /\ knowledge.deployment = "server"
  /\ Len(knowledge.documents) < MaxDocuments
  /\ knowledge' = Stored(knowledge, chunk, createEmbedding(chunk))
  /\ UNCHANGED <<conversations, now, handler, observed, started, turns, call>>

\* src/unnamed/part_001, lines 258-284: scrapeAndIndex embeds a chunk and
\* puts it into the table; a throw of the PutCommand ends the page.
LexIndex(chunk, embedding, put) ==
  /\ knowledge.deployment = "lambda"
  /\ Len(knowledge.documents) < MaxDocuments
  /\ knowledge' = IF put.threw THEN knowledge
                  ELSE Stored(knowledge, chunk,
                              createEmbeddingLex(chunk, embedding))
  /\ call' = [Called("scrapeAndIndex",
                     [chunk |-> chunk, embedding |-> embedding, put |-> put],
                     nullObject, nullObject)
               EXCEPT !.pc = "returned",
                      !.result = IF put.threw THEN 0 ELSE 1]
  /\ UNCHANGED <<conversations, now, handler, observed, started, turns>>

\* A search has returned result.
Searched(input, result) ==
  /\ call' = [Called("searchRelevantDocuments", input, nullObject,
                     nullObject) EXCEPT !.pc = "returned",
                                        !.result = result]
  /\ UNCHANGED <<conversations, now, handler, observed, started, turns,
                 knowledge>>

\* searchRelevantDocuments(query, topK) of the server.
Search(query, topK) ==
  /\ knowledge.deployment = "server"
  /\ Searched([query |-> query, topK |-> topK, embedding |-> nullObject,
               scan |-> nullObject, indexed |-> Len(knowledge.documents)],
              searchRelevantDocuments(knowledge, query, topK))

\* searchRelevantDocuments(query, topK) of the Lex fulfilment.
LexSearch(query, topK, embedding, scan) ==
  /\ knowledge.deployment = "lambda"
  /\ Searched([query |-> query, topK |-> topK, embedding |-> embedding,
               scan |-> scan, indexed |-> Len(knowledge.documents)],
              searchRelevantDocumentsLex(knowledge, query, topK, embedding,
                                         scan))

\* The texts the fallback embedding is made of on its own: with short and
\* long words, with none, with a character that is no word character last.
EmbeddedTexts ==
  LexChunks \cup LexQueries \cup
  {"", "sell my phone", "price iphone 13", "nearest ecoATM location"}

\* createSimpleEmbedding(text) on its own.
SimpleEmbedding(text) ==
  /\ knowledge.deployment = "lambda"
  /\ call' = [Called("createSimpleEmbedding", text, nullObject, nullObject)
               EXCEPT !.pc = "returned",
                      !.result = createSimpleEmbedding(text)]
  /\ UNCHANGED <<conversations, now, handler, observed, started, turns,
                 knowledge>>

NextKnowledge ==
  \/ \E text \in EmbeddedTexts : SimpleEmbedding(text)
  \/ \E chunk \in Chunks : Index(chunk)
  \/ \E chunk \in LexChunks, embedding \in Embeddings,
        put \in Outcomes({"stored"}) :
       LexIndex(chunk, embedding, put)
  \/ \E query \in Queries, topK \in TopKs : Search(query, topK)
  \/ \E query \in LexQueries, topK \in TopKs, embedding \in Embeddings,
        scan \in Scans(knowledge) :
       LexSearch(query, topK, embedding, scan)

SpecKnowledge == InitKnowledge /\ [][NextKnowledge]_vars

\* ------------------------------------------------------------- properties
\* The session request r works on, and what the pending state of a session
\* is made of.
KeyOf(r) == PropertyKey(handler[r].conversationId)
Pending(session) ==
  <<session.awaitingZipCode, session.awaitingDeviceInfo,
    session.partialDeviceInfo>>
Began(r) == handler[r].pc # "idle"
Completes(r) == Suspended(r) /\ handler'[r].pc = "done"
Acts(r) == handler'[r] # handler[r] \/ started'[r] # started[r]

\* The messages that hold a zip-code pattern somewhere, and for each the
\* code at the leftmost position that has one.
HoldsZipCodeAt(cs, i) == ZipMatchAt(cs, i) # NoMatch
ZipMessages ==
  {m \in Messages \cup SessionMessages :
     \E i \in 1..Len(Chars(m)) : HoldsZipCodeAt(Chars(m), i)}
FirstZipCodeIn(cs) ==
  Str(ZipMatchAt(cs, Min({i \in 1..Len(cs) : HoldsZipCodeAt(cs, i)}))[1])
FirstZipCode == [m \in ZipMessages |-> FirstZipCodeIn(Chars(m))]

\* C1: a turn whose message holds a zip-code pattern takes RESOLVE_LOCATION
\* whatever the session's flags and partial device info and whatever
\* keywords the message also holds: its one gateway call is the location
\* lookup, made with the first code of the message.
C1_ZipCodeTakesResolveLocation ==
  \A r \in Requests :
    (Began(r) /\ handler[r].message \in ZipMessages) =>
      /\ observed[r].action = "RESOLVE_LOCATION"
      /\ observed[r].calls =
           <<[gateway |-> "findLocationsByZipCode",
              zipCode |-> FirstZipCode[handler[r].message]]>>

\* C1 happens: a message with estimate keywords and two codes, sent to a
\* session that awaits device info, was answered from the lookup of its
\* first code.
C1_ZipCodeOnPendingSession ==
  \E r \in Requests :
    /\ handler[r].pc = "done"
    /\ handler[r].message = "is my phone worth more in 10001-1234 or 92101"
    /\ started[r].session.awaitingDeviceInfo
    /\ observed[r].action = "RESOLVE_LOCATION"
    /\ observed[r].calls[1].zipCode = "10001-1234"

\* What one turn, run alone on session0, can leave the session as.
TurnResultsFrom(out) ==
  CASE out.pc = "location" ->
         {afterLocation(out.session, out.zipCode, o).session :
            o \in Outcomes(LocationResults)}
    [] out.pc = "estimate" ->
         {afterEstimate(out.session, out.deviceInfo, o).session :
            o \in Outcomes(Payouts)}
    [] out.pc = "completion" ->
         {afterCompletion(out.session, o).session :
            o \in Outcomes(Completions)}
    [] OTHER -> {out.session}
TurnResults(session0, message) == TurnResultsFrom(receive(session0, message))

\* What two turns, run one after the other, can leave the session as.
Serial(session0, first, second) ==
  UNION {TurnResults(s, second) : s \in TurnResults(session0, first)}
SerialPending(session0, m1, m2) ==
  {Pending(s) : s \in Serial(session0, m1, m2) \cup Serial(session0, m2, m1)}

\* Request r2 began while r1, begun just before it on the same conversation,
\* was suspended; both have completed and no request began since.
Overlapped(r1, r2) ==
  /\ r1 # r2
  /\ handler[r1].pc = "done"
  /\ handler[r2].pc = "done"
  /\ r1 \in started[r2].overlapping
  /\ started[r2].turn = started[r1].turn + 1
  /\ turns = started[r2].turn

\* C2: when two turns on one conversation overlap, the flags and partial
\* device info they leave are those of the two turns run one after the
\* other in some order.
C2_OverlappingTurnsSerialized ==
  \A r1, r2 \in Requests :
    Overlapped(r1, r2) =>
      Pending(conversations[KeyOf(r2)]) \in
        SerialPending(started[r1].session, handler[r1].message,
                      handler[r2].message)

\* The entries of a role in a history.
CountRole(messages, role) ==
  Cardinality({i \in 1..Len(messages) : messages[i].role = role})
SuspendedOn(key) == {r \in Requests : Suspended(r) /\ KeyOf(r) = key}

\* C3: every turn that has ended left one assistant entry for its user
\* entry: in each session the user entries are the assistant entries plus
\* the turns still waiting for a gateway.
C3_EveryTurnRecordsItsReply ==
  \A key \in DOMAIN conversations :
    CountRole(conversations[key].messages, "user") =
      CountRole(conversations[key].messages, "assistant")
        + Cardinality(SuspendedOn(key))

\* C4: a turn whose gateway call threw is answered with status 200 and a
\* reply.
C4_GatewayFailureAnswered200 ==
  \A r \in Requests :
    (handler[r].pc = "done" /\ observed[r].threw) =>
      handler[r].response.status = 200

\* C5: when a turn whose message held a zip code completes, for whatever
\* the location lookup came to, the session's awaitingZipCode is false.
C5_ZipTurnClearsAwaitingZipCode ==
  [][\A r \in Requests :
       (Completes(r) /\ handler[r].message \in ZipMessages) =>
         ~conversations'[KeyOf(r)].awaitingZipCode]_vars

\* C5 happens: the lookup threw for a zip code sent to a session that was
\* awaiting one, and the flag is down.
C5_ThrowOnAwaitedZipCode ==
  \E r \in Requests :
    /\ handler[r].pc = "done"
    /\ handler[r].message \in ZipMessages
    /\ observed[r].threw
    /\ started[r].session.awaitingZipCode
    /\ ~conversations[KeyOf(r)].awaitingZipCode

\* C6: when a turn that called the pricing gateway completes, for whatever
\* the call came to, the session awaits no device info and holds no partial
\* device info.
C6_EstimateTurnClearsPendingState ==
  [][\A r \in Requests :
       (Completes(r) /\ handler[r].pc = "estimate") =>
         /\ ~conversations'[KeyOf(r)].awaitingDeviceInfo
         /\ conversations'[KeyOf(r)].partialDeviceInfo = nullObject]_vars

\* C6 happens: the pricing call threw on a session that was awaiting device
\* info and held a partial, and both are cleared.
C6_ThrowOnAwaitedDeviceInfo ==
  \E r \in Requests :
    /\ handler[r].pc = "done"
    /\ observed[r].action = "RESOLVE_ESTIMATE"
    /\ observed[r].threw
    /\ started[r].session.awaitingDeviceInfo
    /\ started[r].session.partialDeviceInfo # nullObject
    /\ Pending(conversations[KeyOf(r)]) = <<FALSE, FALSE, nullObject>>

\* C7: on a fresh session "what's my Galaxy S21 worth" takes ASK_FOR_SLOT
\* and leaves the session awaiting device info with brand Samsung stored.
C7_GalaxyS21AsksForSlot ==
  \A r \in Requests :
    (/\ Began(r)
     /\ handler[r].message = "what's my Galaxy S21 worth"
     /\ started[r].created) =>
      /\ observed[r].action = "ASK_FOR_SLOT"
      /\ conversations[KeyOf(r)].awaitingDeviceInfo
      /\ conversations[KeyOf(r)].partialDeviceInfo # nullObject
      /\ conversations[KeyOf(r)].partialDeviceInfo.brandName = "Samsung"

\* C8: a request that carries no conversation id, or null, is served with
\* a session it created, found empty.
C8_NoIdMeansFreshSession ==
  \A r \in Requests :
    (Began(r) /\ started[r].given \in {null, undefined}) =>
      /\ started[r].created
      /\ started[r].session = NewSession

\* What the step of request r can make of its own session, read from that
\* session and the request alone.
OwnResults(r, session) ==
  CASE handler[r].pc = "location" ->
         {afterLocation(session, handler[r].zipCode, o).session :
            o \in Outcomes(LocationResults)}
    [] handler[r].pc = "estimate" ->
         {afterEstimate(session, handler[r].deviceInfo, o).session :
            o \in Outcomes(Payouts)}
    [] handler[r].pc = "completion" ->
         {afterCompletion(session, o).session : o \in Outcomes(Completions)}
    [] OTHER -> {receive(session, handler'[r].message).session}
SessionUnder(id) ==
  IF id \in DOMAIN conversations THEN conversations[id] ELSE NewSession

\* C9: a step of a turn on conversation A (A a string) leaves the session
\* of every other conversation as it was, and makes of A's session what
\* A's session and the turn alone determine.
C9_OtherConversationsUntouched ==
  [][\A r \in Requests :
       (Acts(r) /\ handler'[r].conversationId # null) =>
         /\ \A id \in DOMAIN conversations :
              id # handler'[r].conversationId =>
                /\ id \in DOMAIN conversations'
                /\ conversations'[id] = conversations[id]
         /\ handler'[r].conversationId \in DOMAIN conversations'
         /\ conversations'[handler'[r].conversationId] \in
              OwnResults(r, SessionUnder(handler'[r].conversationId))]_vars

\* C9 happens: a turn on conversation "A" waits for its gateway while a
\* turn on another conversation, begun after it, has completed.
C9_InterleavedConversations ==
  \E r, q \in Requests :
    /\ handler[r].conversationId = "A"
    /\ Suspended(r)
    /\ handler[q].pc = "done"
    /\ handler[q].conversationId \notin {"A", null, undefined}
    /\ started[q].turn > started[r].turn
    /\ Len(conversations[KeyOf(q)].messages) = 2

\* C10 as stated: no session has both flags up.
C10_AtMostOneFlagUp ==
  \A key \in DOMAIN conversations :
    ~(conversations[key].awaitingZipCode
        /\ conversations[key].awaitingDeviceInfo)

\* C10, amended: both flags can be up, and then awaitingZipCode alone
\* drives the turn: a turn that finds awaitingZipCode up resolves the zip
\* code of its message or asks for one again, and makes no pricing call,
\* whatever awaitingDeviceInfo is.
C10_AwaitingZipCodeDrivesAlone ==
  \A r \in Requests :
    (Began(r) /\ started[r].session.awaitingZipCode) =>
      /\ observed[r].action =
           IF handler[r].message \in ZipMessages
           THEN "RESOLVE_LOCATION" ELSE "CONTINUE_LOCATION_WAIT"
      /\ \A i \in 1..Len(observed[r].calls) :
           observed[r].calls[i].gateway = "findLocationsByZipCode"

\* C10 happens: a turn found both flags up, its message held device info
\* and no zip code, and it asked for the zip code again.
C10_BothFlagsUpAtTurn ==
  \E r \in Requests :
    /\ handler[r].pc = "done"
    /\ started[r].session.awaitingZipCode
    /\ started[r].session.awaitingDeviceInfo
    /\ handler[r].message = "128GB on AT&T"
    /\ observed[r].action = "CONTINUE_LOCATION_WAIT"

\* Request r begins in this step; the session it works on after the step.
Begins(r) == started'[r].turn # started[r].turn
SessionAfter(r) == conversations'[PropertyKey(handler'[r].conversationId)]

\* The step completes a turn on the session under key whose message held a
\* zip code.
ZipTurnCompletesOn(key) ==
  \E q \in Requests :
    /\ Completes(q)
    /\ handler[q].pc = "location"
    /\ handler[q].message \in ZipMessages
    /\ KeyOf(q) = key

\* C11: a turn that finds awaitingZipCode up and no zip code in its message
\* answers at once with the zip-code prompt, makes no gateway call and
\* leaves the flags and the partial device info as they were; and
\* awaitingZipCode goes down only in a step that completes a turn whose
\* message held a zip code.
C11_AwaitedZipCodeRepeatsPrompt ==
  [][/\ \A r \in Requests :
          (/\ Begins(r)
           /\ started'[r].session.awaitingZipCode
           /\ handler'[r].message \notin ZipMessages) =>
            /\ handler'[r].pc = "done"
            /\ observed'[r].action = "CONTINUE_LOCATION_WAIT"
            /\ observed'[r].calls = <<>>
            /\ handler'[r].response.status = 200
            /\ handler'[r].response.reply =
                 <<"To find ecoATM locations near you, I'll need your zip code. Please enter your 5-digit zip code.">>
            /\ Pending(SessionAfter(r)) = Pending(started'[r].session)
     /\ \A key \in DOMAIN conversations :
          (/\ conversations[key].awaitingZipCode
           /\ ~conversations'[key].awaitingZipCode) =>
            ZipTurnCompletesOn(key)]_vars

\* C11 happens: an estimate query without a zip code, sent to a session
\* that awaits a zip code, got the zip-code prompt and the flag is still up.
C11_EstimateQueryWhileAwaitingZipCode ==
  \E r \in Requests :
    /\ handler[r].pc = "done"
    /\ handler[r].message = "price iphone 13"
    /\ started[r].session.awaitingZipCode
    /\ observed[r].action = "CONTINUE_LOCATION_WAIT"
    /\ conversations[KeyOf(r)].awaitingZipCode
    /\ conversations[KeyOf(r)].partialDeviceInfo = nullObject

\* The keyword half of the location signal fires for the message, and the
\* "what is ecoATM" pattern does not suppress it.
LocationKeywordSignal(message) ==
  Parsed[message].isLocationQuery /\ ~Parsed[message].isWhatIsQuestion

\* C12: a turn whose message holds no zip code, on a session that awaits
\* none, with the location signal firing, takes ASK_FOR_ZIP and raises
\* awaitingZipCode, whatever the estimate signal and awaitingDeviceInfo are,
\* with no gateway call and the partial device info left as it was.
C12_LocationSignalAsksForZip ==
  [][\A r \in Requests :
       (/\ Begins(r)
        /\ handler'[r].message \notin ZipMessages
        /\ ~started'[r].session.awaitingZipCode
        /\ LocationKeywordSignal(handler'[r].message)) =>
         /\ observed'[r].action = "ASK_FOR_ZIP"
         /\ observed'[r].calls = <<>>
         /\ SessionAfter(r).awaitingZipCode
         /\ SessionAfter(r).awaitingDeviceInfo =
              started'[r].session.awaitingDeviceInfo
         /\ SessionAfter(r).partialDeviceInfo =
              started'[r].session.partialDeviceInfo]_vars

\* Brand, model, storage and carrier are all present in deviceInfo.
CompleteSlots(deviceInfo) ==
  /\ deviceInfo # nullObject
  /\ \A v \in {deviceInfo.brandName, deviceInfo.modelName,
               deviceInfo.storageOption, deviceInfo.carrierName} :
       v \notin {null, undefined, ""}

\* What the message of the turn r begins yields, merged into the partial
\* device info the turn found.
MergedAt(r) ==
  mergedDeviceInfo(started'[r].session.partialDeviceInfo,
                   Parsed[handler'[r].message].extractDeviceInfo)
PricingCalls(r) ==
  {i \in 1..Len(observed'[r].calls) :
     observed'[r].calls[i].gateway = "getDeviceEstimate"}

\* C13: a turn calls the pricing gateway only in the estimate flow, and a
\* turn in the estimate flow calls it exactly when the merged device info
\* is complete, once and with the merged info; when the merged info is
\* incomplete the turn takes ASK_FOR_SLOT, makes no call, stores the merged
\* info as the partial and raises awaitingDeviceInfo.
C13_PricingCallIffComplete ==
  [][\A r \in Requests :
       Begins(r) =>
         /\ PricingCalls(r) # {} => observed'[r].action = "RESOLVE_ESTIMATE"
         /\ observed'[r].action \in {"RESOLVE_ESTIMATE", "ASK_FOR_SLOT"} =>
              IF CompleteSlots(MergedAt(r))
              THEN /\ observed'[r].action = "RESOLVE_ESTIMATE"
                   /\ observed'[r].calls =
                        <<[gateway |-> "getDeviceEstimate",
                           deviceInfo |-> MergedAt(r)]>>
              ELSE /\ observed'[r].action = "ASK_FOR_SLOT"
                   /\ observed'[r].calls = <<>>
                   /\ SessionAfter(r).partialDeviceInfo = MergedAt(r)
                   /\ SessionAfter(r).awaitingDeviceInfo]_vars

\* C13 happens: storage and carrier sent to a session that held a partial
\* with the model completed it, and the pricing gateway was called with the
\* merged device info.
C13_MergedToComplete ==
  \E r \in Requests :
    /\ handler[r].pc = "estimate"
    /\ handler[r].message = "128GB on AT&T"
    /\ started[r].session.partialDeviceInfo # nullObject
    /\ started[r].session.partialDeviceInfo.storageOption = undefined
    /\ observed[r].calls[1].deviceInfo.modelName = "Iphone 13"
    /\ observed[r].calls[1].deviceInfo.storageOption = "128GB"
    /\ observed[r].calls[1].deviceInfo.carrierName = "At&t"

\* C14: a turn in the estimate flow that finds awaitingDeviceInfo up and
\* whose message yields no device info answers with the generic re-prompt
\* that names no slot, whether or not a partial is stored, and leaves the
\* partial device info and the flags as they were.
C14_NothingExtractedRepeatsGenericPrompt ==
  [][\A r \in Requests :
       (/\ Begins(r)
        /\ started'[r].session.awaitingDeviceInfo
        /\ Parsed[handler'[r].message].extractDeviceInfo = nullObject
        /\ observed'[r].action \in {"ASK_FOR_SLOT", "RESOLVE_ESTIMATE"}) =>
         /\ observed'[r].action = "ASK_FOR_SLOT"
         /\ handler'[r].response.reply =
              <<"I'm still having trouble understanding which device you want to get an estimate for. Please provide the brand (like Apple, Samsung), model (like iPhone 13, Galaxy S21), storage size (like 128GB), and carrier (like Verizon, AT&T).">>
         /\ Pending(SessionAfter(r)) = Pending(started'[r].session)]_vars

\* The call of op on its own has returned.
HasReturned(op) ==
  /\ call # nullObject
  /\ call.op = op
  /\ call.pc \in {"returned", "repeated"}

\* A free-text extraction, of either deployment, has returned.
FreeTextExtracted ==
  /\ HasReturned("extractDeviceInfo") \/ HasReturned("extractDeviceInfoLex")
  /\ call.input.typeof = "string"

\* C15: free-text extraction of a message without a model pattern returns
\* null, whatever storage size or carrier the message holds.
C15_NoModelMatchYieldsNull ==
  (/\ FreeTextExtracted
   /\ modelMatch(Chars(call.input.message)) = NoMatch) =>
    call.result = nullObject

\* C16: free-text extraction of a message with a model pattern leaves the
\* storage absent when the message holds no storage size, and the carrier
\* absent when it holds no carrier, so that the device info is incomplete:
\* "128GB" and "Verizon" are filled in for Lex slots only.
C16_FreeTextAppliesNoDefaults ==
  (/\ FreeTextExtracted
   /\ modelMatch(Chars(call.input.message)) # NoMatch) =>
    /\ storageMatch(Chars(call.input.message)) = NoMatch =>
         /\ ~Truthy(call.result.storageOption)
         /\ ~CompleteSlots(call.result)
    /\ carrierMatch(Chars(call.input.message)) = NoMatch =>
         /\ ~Truthy(call.result.carrierName)
         /\ ~CompleteSlots(call.result)

\* C17: updateDeviceInfo called with a null newInfo returns existingInfo as
\* it was given, and called with a null existingInfo returns newInfo as it
\* was given, missingInfo included.
C17_NullSideReturnsOther ==
  HasReturned("updateDeviceInfo") =>
    /\ call.newInfo = nullObject => call.result = call.existingInfo
    /\ call.existingInfo = nullObject => call.result = call.newInfo

\* C17 happens: a device info with a model and a storage size was merged
\* with null and came back as it was.
C17_MergedWithNull ==
  /\ HasReturned("updateDeviceInfo")
  /\ call.newInfo = nullObject
  /\ call.existingInfo # nullObject
  /\ call.existingInfo.modelName = "Iphone 13"
  /\ call.existingInfo.storageOption = "64GB"
  /\ call.result = call.existingInfo

\* The five slots of a device info.
SlotNames ==
  {"brandName", "modelName", "seriesName", "storageOption", "carrierName"}

\* C18: when neither side is null, each slot of what updateDeviceInfo
\* returns is newInfo's when newInfo has the slot and existingInfo's
\* otherwise, and a slot either side has is never missing from the result.
C18_NewInfoWinsPerSlot ==
  (/\ HasReturned("updateDeviceInfo")
   /\ call.existingInfo # nullObject
   /\ call.newInfo # nullObject) =>
    \A slot \in SlotNames :
      /\ call.result[slot] =
           IF Truthy(call.newInfo[slot]) THEN call.newInfo[slot]
           ELSE call.existingInfo[slot]
      /\ (Truthy(call.existingInfo[slot]) \/ Truthy(call.newInfo[slot])) =>
           Truthy(call.result[slot])

\* C18 happens: both sides had a storage size and the new one was taken,
\* while the model, which only the existing side had, was kept.
C18_StorageReplacedModelKept ==
  /\ HasReturned("updateDeviceInfo")
  /\ call.existingInfo # nullObject
  /\ call.newInfo # nullObject
  /\ call.existingInfo.storageOption = "64GB"
  /\ call.newInfo.storageOption = "128GB"
  /\ call.existingInfo.modelName = "Iphone 13"
  /\ call.newInfo.modelName = undefined
  /\ call.result.storageOption = "128GB"
  /\ call.result.modelName = "Iphone 13"

\* The missingInfo flags of deviceInfo say what its slots say.
UpToDate(deviceInfo) ==
  deviceInfo.missingInfo =
    missingInfoOf(deviceInfo.storageOption, deviceInfo.carrierName,
                  deviceInfo.modelName)

\* Every partial device info stored in a session has its flags up to date.
StoredPartialsUpToDate ==
  \A key \in DOMAIN conversations :
    conversations[key].partialDeviceInfo # nullObject =>
      UpToDate(conversations[key].partialDeviceInfo)

FullDeviceInfo(brandName, modelName, storageOption, carrierName, flags) ==
  IF flags
  THEN [brandName |-> brandName, modelName |-> modelName,
        seriesName |-> modelName, storageOption |-> storageOption,
        carrierName |-> carrierName,
        missingInfo |-> [storage |-> FALSE, carrier |-> FALSE,
                         model |-> FALSE]]
  ELSE [brandName |-> brandName, modelName |-> modelName,
        seriesName |-> modelName, storageOption |-> storageOption,
        carrierName |-> carrierName]

\* C21 as stated: free-text extraction of "I have an iPhone 13 Pro with
\* 256GB on Verizon" yields brand "Apple", model and series "Iphone 13Pro",
\* storage "256GB", carrier "Verizon" and nothing else.
C21_ModelNameIphone13Pro ==
  (/\ FreeTextExtracted
   /\ call.input.message = "I have an iPhone 13 Pro with 256GB on Verizon") =>
    call.result =
      FullDeviceInfo("Apple", "Iphone 13Pro", "256GB", "Verizon", FALSE)

\* C21 as amended: the model and the series are "Iphone 13 Pro", the
\* qualifiers being added as the message has them, blanks and case
\* included; the service's result carries its missingInfo flags, all down.
C21_ModelNameKeepsQualifiersAsMatched ==
  FreeTextExtracted =>
    /\ call.input.message = "I have an iPhone 13 Pro with 256GB on Verizon" =>
         call.result =
           FullDeviceInfo("Apple", "Iphone 13 Pro", "256GB", "Verizon",
                          call.op = "extractDeviceInfo")
    /\ call.input.message = "iphone 12 pro max 64gb" =>
         /\ call.result.modelName = "Iphone 12 pro max"
         /\ call.result.seriesName = "Iphone 12 pro max"
         /\ call.result.brandName = "Apple"
    /\ call.input.message = "pixel 6 128gb" =>
         /\ call.result.modelName = "Pixel 6"
         /\ call.result.brandName = "Google"
    /\ call.input.message = "price iphone 13" =>
         call.result.modelName = "Iphone 13"

\* C21 happens: the service extracted the device of the spec's example.
C21_ExampleExtracted ==
  /\ HasReturned("extractDeviceInfo")
  /\ call.input.message = "I have an iPhone 13 Pro with 256GB on Verizon"
  /\ call.result.modelName = "Iphone 13 Pro"
  /\ call.result.storageOption = "256GB"

\* The text of the reply holds the word, and where it first does.
Mentions(reply, word) == includes(Join(reply), Chars(word))
MentionedAt(reply, word) ==
  Min({i \in 1..Len(Join(reply)) : LitAtI(Join(reply), i, Chars(word))})

\* C22: the message getMissingInfoMessage composes mentions the storage
\* exactly when the storage is missing and the carrier exactly when the
\* carrier is missing, with the storage, " and ", the carrier in this order
\* when both are missing; it is null exactly when neither is missing.
C22_StorageThenCarrier ==
  HasReturned("getMissingInfoMessage") =>
    IF Truthy(call.input.storageOption) /\ Truthy(call.input.carrierName)
    THEN call.result = <<null>>
    ELSE /\ call.result # <<null>>
         /\ Mentions(call.result, "storage") =
              ~Truthy(call.input.storageOption)
         /\ Mentions(call.result, "carrier") =
              ~Truthy(call.input.carrierName)
         /\ (~Truthy(call.input.storageOption)
               /\ ~Truthy(call.input.carrierName)) =>
              /\ MentionedAt(call.result, "storage")
                   < MentionedAt(call.result, " and ")
              /\ MentionedAt(call.result, " and ")
                   < MentionedAt(call.result, "carrier")

\* C22 happens: a message was composed for a device info with a model and
\* neither storage nor carrier.
C22_BothMissing ==
  /\ HasReturned("getMissingInfoMessage")
  /\ call.input.modelName = "Iphone 13"
  /\ call.input.storageOption = undefined
  /\ call.input.carrierName = undefined
  /\ Mentions(call.result, "storage")
  /\ Mentions(call.result, "carrier")

\* A search has returned; the embedding its query got; the score of a
\* document it returned.
HasSearched == call # nullObject /\ call.op = "searchRelevantDocuments"
QueryEmbedding ==
  IF knowledge.deployment = "server"
  THEN createEmbedding(call.input.query)
  ELSE createEmbeddingLex(call.input.query, call.input.embedding)
ScoreOf(document) ==
  cosineSimilarity(QueryEmbedding, knowledge.vectorStore[document.source])

\* C23: the documents a search returns stand in descending order of their
\* similarity to the query, and of two returned documents with the same
\* score the one indexed first stands first.
C23_DescendingTiesInIngestionOrder ==
  HasSearched =>
    \A i, j \in 1..Len(call.result) :
      i < j =>
        /\ ~Greater(ScoreOf(call.result[j]), ScoreOf(call.result[i]))
        /\ ~Greater(ScoreOf(call.result[i]), ScoreOf(call.result[j])) =>
             call.result[i].source < call.result[j].source

\* The documents indexed when the search ran.
IndexedThen == SubSeq(knowledge.documents, 1, call.input.indexed)

\* The search read the index: always on the server, and on the Lex
\* fulfilment when the ScanCommand did not throw.
IndexRead ==
  knowledge.deployment = "lambda" => ~call.input.scan.threw

\* The documents returned are indexed ones, each returned once.
DistinctIndexed ==
  /\ \A i \in 1..Len(call.result) :
       \E k \in 1..Len(IndexedThen) : IndexedThen[k] = call.result[i]
  /\ \A i, j \in 1..Len(call.result) :
       call.result[i] = call.result[j] => i = j

\* C24 as stated: a search returns exactly min(topK, number of indexed
\* documents) documents, each a distinct indexed one, and the empty
\* sequence on an empty index.
C24_ExactlyTopKOrAll ==
  HasSearched =>
    /\ Len(call.result) = Min({call.input.topK, call.input.indexed})
    /\ DistinctIndexed

\* C24 as amended: a search never returns more than topK documents, each a
\* distinct indexed one; it returns exactly min(topK, number of indexed
\* documents) of them whenever it could read the index, and none when it
\* could not.
C24_TopKOrAllWhenIndexRead ==
  HasSearched =>
    /\ DistinctIndexed
    /\ Len(call.result) =
         IF IndexRead THEN Min({call.input.topK, call.input.indexed}) ELSE 0

\* C24 happens: a search with topK 1 over three indexed documents returned
\* one document.
C24_Truncated ==
  /\ HasSearched
  /\ call.input.topK = 1
  /\ call.input.indexed = 3
  /\ Len(call.result) = 1

\* The polynomial hash of a word, hash = hash * 31 + charCode from 0, taken
\* modulo the vector's length (the hash is never negative), and the slot
\* counts it gives for the words from the k-th on.
RECURSIVE PolynomialSlot(_, _, _)
PolynomialSlot(word, i, slot) ==
  IF i > Len(word) THEN slot
  ELSE PolynomialSlot(word, i + 1,
                      (slot * 31 + charCodeAt(word[i])) % vectorLength)
RECURSIVE PolynomialCounts(_, _, _)
PolynomialCounts(words, k, vector) ==
  IF k > Len(words) THEN vector
  ELSE PolynomialCounts(words, k + 1,
                        Increment(vector, PolynomialSlot(words[k], 1, 0)))

\* The same hash cut to a signed 32-bit integer after every character, as a
\* Number, and the slot counts of abs(hash) modulo the vector's length.
WrappedStep(hash, code) ==
  [hi |-> Signed16(((hash.hi % Two16) * 31
                      + (hash.lo * 31 + code) \div Two16) % Two16),
   lo |-> (hash.lo * 31 + code) % Two16]
RECURSIVE WrappedHash(_, _, _)
WrappedHash(word, i, hash) ==
  IF i > Len(word) THEN hash
  ELSE WrappedHash(word, i + 1, WrappedStep(hash, charCodeAt(word[i])))
RECURSIVE WrappedCounts(_, _, _)
WrappedCounts(words, k, vector) ==
  IF k > Len(words) THEN vector
  ELSE WrappedCounts(words, k + 1,
         Increment(vector, idxOf(WrappedHash(words[k], 1, Number(0, 0)))))

\* The sum of the slots of a vector.
RECURSIVE SumOver(_, _)
SumOver(slots, vector) ==
  IF slots = {} THEN 0
  ELSE LET i == CHOOSE i \in slots : TRUE
       IN  vector[i] + SumOver(slots \ {i}, vector)

\* The words of the text the fallback embedding was made of.
EmbeddedWords == split(toLowerCase(Chars(call.input)))

\* C25: every word of the text raises by one the slot abs(hash) mod 1536 of
\* its polynomial hash (hash = hash * 31 + charCode from 0, read exactly or
\* as a 32-bit integer), every slot lies in 0..1535 and the slots sum to
\* the number of words.
C25_SlotsOfPolynomialHash ==
  (call # nullObject /\ call.op = "createSimpleEmbedding") =>
    /\ \/ call.result = PolynomialCounts(EmbeddedWords, 1, <<>>)
       \/ call.result = WrappedCounts(EmbeddedWords, 1, <<>>)
    /\ DOMAIN call.result \subseteq 0..(vectorLength - 1)
    /\ SumOver(DOMAIN call.result, call.result) = Len(EmbeddedWords)

\* A chunk has just been put into the table with Bedrock down, and a search
\* of the Lex fulfilment has read the table with Bedrock down.
IndexedGatewayDown ==
  /\ call # nullObject
  /\ call.op = "scrapeAndIndex"
  /\ call.input.embedding.threw
  /\ ~call.input.put.threw
SearchedGatewayDown ==
  /\ HasSearched
  /\ knowledge.deployment = "lambda"
  /\ call.input.embedding.threw
  /\ ~call.input.scan.threw

\* C26: when Bedrock throws, the chunk is stored with the fallback
\* embedding of its own text, and a search ranks the items the scan
\* returned against the fallback embedding of the query.
C26_GatewayDownFallsBack ==
  /\ IndexedGatewayDown =>
       /\ call.result = 1
       /\ knowledge.documents[Len(knowledge.documents)].content
            = call.input.chunk
       /\ knowledge.vectorStore[Len(knowledge.vectorStore)]
            = createSimpleEmbedding(call.input.chunk)
  /\ SearchedGatewayDown =>
       call.result = searchItems(knowledge,
                                 createSimpleEmbedding(call.input.query),
                                 call.input.scan.value, call.input.topK)

\* Witness of C26: with Bedrock down for the chunks and for the query, the
\* search returned two documents, the one of the query's own text first.
C26_RankedWithGatewayDown ==
  /\ SearchedGatewayDown
  /\ \A k \in 1..Len(knowledge.vectorStore) :
       knowledge.vectorStore[k]
         = SimpleEmbeddings[knowledge.documents[k].content]
  /\ call.input.topK = 3
  /\ Len(call.result) >= 2
  /\ call.result[1].content = call.input.query
  /\ call.result[2].content # call.input.query

\* The message of a turn matches the "what is ecoATM" pattern and holds no
\* zip code, and the two replies that ask for the zip code.
WhatIsWithoutZip(message) ==
  /\ Parsed[message].isWhatIsQuestion
  /\ Parsed[message].zipCodeMatch = NoMatch
ZipCodePrompts ==
  {<<"I'd be happy to help you find the nearest ecoATM kiosk! To locate the closest kiosk to you, I'll need your zip code. Please enter your 5-digit zip code.">>,
   <<"To find ecoATM locations near you, I'll need your zip code. Please enter your 5-digit zip code.">>}
AsksForZipCode(response) ==
  /\ response # nullObject
  /\ response.status = 200
  /\ response.reply \in ZipCodePrompts

\* C27: a turn whose message matches the "what is ecoATM" pattern and holds
\* no zip code, on a session that awaits none, does not take ASK_FOR_ZIP,
\* never replies with a zip-code prompt and leaves awaitingZipCode as it
\* finds it, when it begins and when it completes.
C27_WhatIsQuestionSuppressesLocationSignal ==
  [][\A r \in Requests :
       /\ (/\ Begins(r)
           /\ WhatIsWithoutZip(handler'[r].message)
           /\ ~started'[r].session.awaitingZipCode) =>
            /\ observed'[r].action # "ASK_FOR_ZIP"
            /\ ~AsksForZipCode(handler'[r].response)
            /\ ~SessionAfter(r).awaitingZipCode
       /\ (/\ Completes(r)
           /\ WhatIsWithoutZip(handler[r].message)
           /\ ~started[r].session.awaitingZipCode) =>
            /\ ~AsksForZipCode(handler'[r].response)
            /\ conversations'[KeyOf(r)].awaitingZipCode
                 = conversations[KeyOf(r)].awaitingZipCode]_vars

\* Witness of C27: a turn asking what an ecoATM kiosk is, right after the
\* assistant offered to find the nearest ecoATM location, was answered by
\* the completion and left awaitingZipCode down.
C27_WhatIsKioskAnswered ==
  \E r \in Requests :
    /\ handler[r].pc = "done"
    /\ handler[r].message = "what is an ecoATM kiosk"
    /\ Parsed[handler[r].message].isLocationQuery
    /\ ~started[r].session.awaitingZipCode
    /\ started[r].session.messages # <<>>
    /\ started[r].session.messages[Len(started[r].session.messages)]
         = [role |-> "assistant",
            content |-> <<"Would you like me to find the nearest ecoATM location?">>]
    /\ observed[r].action = "GENERAL"
    /\ handler[r].response.status = 200
    /\ ~conversations[KeyOf(r)].awaitingZipCode

\* Series and model of a device info are both absent, or both present and
\* equal.
Mirrors(deviceInfo) ==
  \/ deviceInfo = nullObject
  \/ deviceInfo.seriesName = deviceInfo.modelName

\* C28: series mirrors model in every result of an extraction, from text or
\* from slots, of either deployment; in every merge of two device infos
\* that have it so, and in the merge repeated; in every partial device info
\* a session stores and in every device info sent to the pricing gateway.
C28_SeriesMirrorsModel ==
  /\ (HasReturned("extractDeviceInfo") \/ HasReturned("extractDeviceInfoLex"))
       => Mirrors(call.result)
  /\ (/\ HasReturned("updateDeviceInfo")
      /\ Mirrors(call.existingInfo)
      /\ Mirrors(call.newInfo)) =>
       /\ Mirrors(call.result)
       /\ call.pc = "repeated" => Mirrors(call.again)
  /\ \A key \in DOMAIN conversations :
       Mirrors(conversations[key].partialDeviceInfo)
  /\ \A r \in Requests :
       \A k \in DOMAIN observed[r].calls :
         observed[r].calls[k].gateway = "getDeviceEstimate" =>
           Mirrors(observed[r].calls[k].deviceInfo)

\* Witness of C28: a turn found storage and carrier stored without a model,
\* merged the model of its message into them and sent the pricing gateway a
\* device info whose series is that model.
C28_MergedModelMirrored ==
  \E r \in Requests :
    /\ Began(r)
    /\ started[r].session.partialDeviceInfo # nullObject
    /\ started[r].session.partialDeviceInfo.modelName = undefined
    /\ started[r].session.partialDeviceInfo.storageOption = "64GB"
    /\ observed[r].calls # <<>>
    /\ observed[r].calls[1].gateway = "getDeviceEstimate"
    /\ observed[r].calls[1].deviceInfo.modelName = "Iphone 13"
    /\ observed[r].calls[1].deviceInfo.seriesName = "Iphone 13"
    /\ observed[r].calls[1].deviceInfo.storageOption = "64GB"

\* The messages of a session are kept as they are and in their order, with
\* any new ones after them.
IsPrefix(before, after) ==
  /\ Len(before) <= Len(after)
  /\ SubSeq(after, 1, Len(before)) = before

\* C29: every step, whether it begins a turn, completes one with a reply or
\* ends one with status 500, keeps every session the server has, with the
\* messages it had as a prefix of the messages it has afterwards and the
\* system prompt unchanged; a message for an existing session works on that
\* session as it stands.
C29_TurnsAppendOnly ==
  [][/\ \A key \in DOMAIN conversations :
          /\ key \in DOMAIN conversations'
          /\ IsPrefix(conversations[key].messages,
                      conversations'[key].messages)
          /\ conversations'[key].systemPrompt
               = conversations[key].systemPrompt
     /\ \A r \in Requests :
          (Begins(r) /\ PropertyKey(handler'[r].conversationId)
                          \in DOMAIN conversations) =>
            /\ ~started'[r].created
            /\ started'[r].session = conversations[PropertyKey(
                                       handler'[r].conversationId)]]_vars

\* Witness of C29: a turn on an existing session ended with status 500, and
\* the session still holds the turns recorded before it and its own user
\* message after them.
C29_KeptThroughErrorResponse ==
  \E r \in Requests :
    /\ handler[r].pc = "done"
    /\ handler[r].response.status = 500
    /\ ~started[r].created
    /\ Len(started[r].session.messages) >= 2
    /\ IsPrefix(started[r].session.messages, conversations[KeyOf(r)].messages)
    /\ Len(conversations[KeyOf(r)].messages)
         > Len(started[r].session.messages)

\* C30: every reply a turn returns with status 200, and every assistant
\* entry a session records, is a string and never null, also when the
\* merged device info has storage and carrier but no model.
C30_EveryReplyIsAString ==
  /\ \A r \in Requests :
       (handler[r].pc = "done" /\ handler[r].response.status = 200) =>
         handler[r].response.reply # <<null>>
  /\ \A key \in DOMAIN conversations :
       \A k \in DOMAIN conversations[key].messages :
         conversations[key].messages[k].role = "assistant" =>
           conversations[key].messages[k].content # <<null>>

\* C31: in every state, also while a turn on the session waits for a
\* gateway, a session that stores a partial device info has
\* awaitingDeviceInfo up, and the stored device info lacks at least one of
\* brand, model, storage and carrier.
C31_StoredPartialIsAwaitedAndIncomplete ==
  \A key \in DOMAIN conversations :
    conversations[key].partialDeviceInfo # nullObject =>
      /\ conversations[key].awaitingDeviceInfo
      /\ ~CompleteSlots(conversations[key].partialDeviceInfo)

\* Witness of C31: a session stores storage and carrier without a model
\* and awaits the device info, while a turn on it waits for a gateway.
C31_PartialStoredWhileTurnSuspended ==
  \E key \in DOMAIN conversations :
    /\ conversations[key].partialDeviceInfo # nullObject
    /\ conversations[key].partialDeviceInfo.storageOption # undefined
    /\ conversations[key].partialDeviceInfo.modelName = undefined
    /\ conversations[key].awaitingDeviceInfo
    /\ SuspendedOn(key) # {}

\* C32: while no turn on a session waits for a gateway, its history is
\* user, assistant, user, assistant, ... and ends with an assistant entry,
\* so that the entry before the next user message is the reply to the
\* message before it.
C32_RolesAlternateBetweenTurns ==
  \A key \in DOMAIN conversations :
    SuspendedOn(key) = {} =>
      /\ Len(conversations[key].messages) % 2 = 0
      /\ \A k \in DOMAIN conversations[key].messages :
           conversations[key].messages[k].role =
             IF k % 2 = 1 THEN "user" ELSE "assistant"

\* The session a step of request r works on, as the step finds it (a new
\* session when there is none under the key yet), and the branches by
\* the fields they own.
SessionBefore(r) ==
  sessionAt(PropertyKey(handler'[r].conversationId))
LocationActions ==
  {"RESOLVE_LOCATION", "CONTINUE_LOCATION_WAIT", "ASK_FOR_ZIP"}
EstimateActions == {"ASK_FOR_SLOT", "RESOLVE_ESTIMATE"}

\* C33: every step of a turn that takes the zip-code, zip re-prompt,
\* location-signal or GENERAL branch leaves awaitingDeviceInfo and the
\* partial device info as it finds them, and every step of a turn that
\* takes the estimate or GENERAL branch leaves awaitingZipCode as it finds
\* it.
C33_BranchesKeepToTheirFields ==
  [][\A r \in Requests :
       Acts(r) =>
         /\ observed'[r].action \in LocationActions \cup {"GENERAL"} =>
              /\ SessionAfter(r).awaitingDeviceInfo
                   = SessionBefore(r).awaitingDeviceInfo
              /\ SessionAfter(r).partialDeviceInfo
                   = SessionBefore(r).partialDeviceInfo
         /\ observed'[r].action \in EstimateActions \cup {"GENERAL"} =>
              SessionAfter(r).awaitingZipCode
                = SessionBefore(r).awaitingZipCode]_vars

\* Witness of C33: a turn whose message held a zip code was answered on a
\* session that stores a partial device info and awaits the rest, and
\* both are as the turn found them.
C33_ZipTurnLeftEstimateFlow ==
  \E r \in Requests :
    /\ handler[r].pc = "done"
    /\ observed[r].action = "RESOLVE_LOCATION"
    /\ started[r].session.awaitingDeviceInfo
    /\ started[r].session.partialDeviceInfo # nullObject
    /\ conversations[KeyOf(r)].awaitingDeviceInfo
    /\ conversations[KeyOf(r)].partialDeviceInfo
         = started[r].session.partialDeviceInfo
    /\ ~conversations[KeyOf(r)].awaitingZipCode

\* The calls of a turn to one gateway.
CallsTo(r, gateway) ==
  {k \in DOMAIN observed[r].calls : observed[r].calls[k].gateway = gateway}

\* C34: if every gateway call returns or throws in the end, a turn that
\* waits for a gateway is answered in the end; a turn makes at most one
\* call to each gateway; a turn that is done has a response, and the
\* response of a request changes only when its next turn begins.
C34_EveryTurnCompletesOnce ==
  /\ \A r \in Requests : Suspended(r) ~> handler[r].pc = "done"
  /\ [](\A r \in Requests :
          /\ \A gateway \in {"findLocationsByZipCode", "getDeviceEstimate",
                             "anthropic.messages.create"} :
               Cardinality(CallsTo(r, gateway)) <= 1
          /\ handler[r].pc = "done" <=> handler[r].response # nullObject)
  /\ [][\A r \in Requests :
          (/\ handler[r].response # nullObject
           /\ handler'[r].response # handler[r].response) => Begins(r)]_vars

\* Witness of C34: a turn that called the completion gateway is done and
\* has its response.
C34_TurnAnsweredAfterItsCall ==
  \E r \in Requests :
    /\ handler[r].pc = "done"
    /\ Len(observed[r].calls) = 1
    /\ observed[r].action = "GENERAL"
    /\ handler[r].response.status = 200

====
